---- MODULE Spec2Model ----
(***************************************************************************)
(* The custom rule path registry of sfdx-scanner                           *)
(* (src/src/lib/CustomRulePathManager.ts): one manager per process, the    *)
(* persisted document it loads lazily and rewrites after every mutation,   *)
(* the filesystem its patterns are checked against and the ordered engine  *)
(* list that attributes a path to an engine; a second process sharing the  *)
(* document; the asynchronous steps of overlapping operations; and the     *)
(* ESLint engine adapter (src/src/lib/eslint/BaseEslintEngine.ts) with its *)
(* engine selection, rule filters and memoized catalog.                    *)
(***************************************************************************)
EXTENDS Integers, Sequences, FiniteSets, TLC

VARIABLES
    engines,                  \* this.engines: the ordered engine list of the manager
    pathsByLanguageByEngine,  \* this.pathsByLanguageByEngine: engine name -> language -> Set of paths
    initialized,              \* this.initialized
    file,                     \* the persisted document <scanner-home>/<custom-paths-file>
    writable,                 \* whether mkdirIfNotExists/writeFile of the document succeed
    files,                    \* the regular files that exist on the filesystem
    entered,                  \* history: path -> what was true of it when it entered the registry
    last,                     \* history: the last call, its arguments, its outcome and the state it started from
    peer,                     \* the manager of a second process on the same document, while that process is not running
    tasks,                    \* the operations in flight on the manager, each with its position and locals
    eslint,                   \* the ESLint engine instance: this.catalog, the native rules, and history of its builds
    query,                    \* the last engine-selection or rule-filter evaluation, its inputs and its result
    run                       \* the targets of a command and the run of an ESLint engine over them: its inputs, position, locals and outcome

vars == <<engines, pathsByLanguageByEngine, initialized, file, writable, files, entered, last,
          peer, tasks, eslint, query, run>>

\* what the atomic calls of one manager leave alone
others == <<peer, tasks, eslint, query, run>>

-----------------------------------------------------------------------------
(* Bounds and the universe of inputs                                       *)

\* longest pattern list handed to one call
MaxPats == 2

Languages == {"apex", "java"}

\* the one directory of the modelled filesystem and what it can hold, in listing order
RulesDir == "/r"
DirListing == <<"MyRules.jar", "Extra.jar", "notes.txt", "sub">>
SubDir == "/r/sub"
SubListing == <<"Deep.jar">>
Directories == {RulesDir, SubDir}
\* the names a directory lists, in listing order
Listing(dir) ==
    IF dir = RulesDir THEN DirListing ELSE IF dir = SubDir THEN SubListing ELSE <<>>

\* patterns a caller may pass: an archive file, a file of another extension, a
\* directory, and an entry that never exists
Patterns == {"/r/MyRules.jar", "/r/notes.txt", "/r", "/nope.jar"}

PatternLists == UNION {[1..n -> Patterns] : n \in 0..MaxPats}

\* files the environment may delete between calls
Deletable == {"/r/MyRules.jar"}

-----------------------------------------------------------------------------
(* Strings, sequences and JS Maps/Sets                                     *)

\* String.prototype.endsWith
EndsWith(s, suffix) ==
    /\ Len(s) >= Len(suffix)
    /\ SubSeq(s, Len(s) - Len(suffix) + 1, Len(s)) = suffix

\* path.resolve(dir, name) for an absolute dir without a trailing separator
PathResolve(dir, name) == dir \o "/" \o name

Range(s) == {s[i] : i \in 1..Len(s)}

SeqContains(s, x) == \E i \in 1..Len(s) : s[i] = x

\* Variant of SetAdd that pushes without the membership test (an array instead
\* of a Set); C4_AddIdempotent fails with it.
SetAddNoDedupe(s, x) == Append(s, x)

\* a JS Set is kept as its insertion-ordered sequence of distinct members
\* Set.prototype.add: appends unless already a member
SetAdd(s, x) == IF SeqContains(s, x) THEN s ELSE Append(s, x)

\* Set.prototype.delete: the set without x
SetDelete(s, x) == SelectSeq(s, LAMBDA y : y # x)

RECURSIVE NewSet(_)
\* new Set(array): members in order of first occurrence
NewSet(array) ==
    IF array = <<>> THEN <<>>
    ELSE LET rest == NewSet(SubSeq(array, 1, Len(array) - 1))
         IN  SetAdd(rest, array[Len(array)])

\* a JS Map with string keys is a function on the keys it has
EmptyMap == [k \in {} |-> {}]

MapSet(m, k, v) == [x \in (DOMAIN m) \cup {k} |-> IF x = k THEN v ELSE m[x]]

\* A value used as a Map key. Map.prototype.has/get compare keys by
\* SameValueZero: a key that is not a string equals no string key.
StringKey(s) == [type |-> "string", name |-> s, owns |-> {}]
Undefined == [type |-> "undefined", name |-> "", owns |-> {}]

MapHas(m, key) == key.type = "string" /\ key.name \in DOMAIN m

-----------------------------------------------------------------------------
(* Engines and attribution                                                 *)

\* BaseEslintEngine.matchPath: custom rules are not supported, no path matches
BaseEslintEngine_matchPath(path) == FALSE

\* The ESLint engine object (ENGINE.ESLINT)
EslintEngine == [type |-> "object", name |-> "eslint", owns |-> {}]

\* An engine of another family (ENGINE.PMD): its ownership predicate is opaque,
\* given here by the set of paths it accepts
PmdEngine(owns) == [type |-> "object", name |-> "pmd", owns |-> owns]

\* A second engine of another family (ENGINE.CPD), its predicate opaque as well
CpdEngine(owns) == [type |-> "object", name |-> "cpd", owns |-> owns]

\* RuleEngine.matchPath, dispatched on the engine
matchPath(e, path) ==
    IF e.name = "eslint" THEN BaseEslintEngine_matchPath(path) ELSE path \in e.owns

\* every file the modelled directory can hold
DirEntries ==
    UNION {{PathResolve(d, Listing(d)[i]) : i \in 1..Len(Listing(d))} : d \in Directories}
        \ Directories

\* the engine lists a manager may be constructed with
EngineLists ==
    { <<EslintEngine>>,
      <<EslintEngine, PmdEngine(DirEntries)>>,
      <<PmdEngine({"/r/MyRules.jar"}), EslintEngine>>,
      <<PmdEngine(DirEntries), CpdEngine({"/r/MyRules.jar"})>>,
      <<CpdEngine({"/r/MyRules.jar"}), EslintEngine, PmdEngine(DirEntries)>> }

\* Variant of determineEngineForPath that keeps the last matching engine instead
\* of the first; C11_FirstMatchWins fails with it.
determineEngineForPathLastMatch(path) ==
    IF \E i \in 1..Len(engines) : matchPath(engines[i], path)
    THEN engines[CHOOSE i \in 1..Len(engines) :
                    /\ matchPath(engines[i], path)
                    /\ \A j \in (i + 1)..Len(engines) : ~matchPath(engines[j], path)]
    ELSE Undefined

\* CustomRulePathManager.determineEngineForPath: Array.prototype.find, the
\* first engine whose matchPath is true, undefined when there is none
determineEngineForPath(path) ==
    IF \E i \in 1..Len(engines) : matchPath(engines[i], path)
    THEN engines[CHOOSE i \in 1..Len(engines) :
                    /\ matchPath(engines[i], path)
                    /\ \A j \in 1..(i - 1) : ~matchPath(engines[j], path)]
    ELSE Undefined

-----------------------------------------------------------------------------
(* The filesystem seen through FileHandler                                 *)

\* FileHandler.stats: "file", "directory", or "ENOENT" when stat throws
Stats(p) ==
    IF p \in files THEN "file"
    ELSE IF p \in Directories THEN "directory"
    ELSE "ENOENT"

\* FileHandler.readDir: the names of the directory's existing entries, in listing order
ReadDir(p) ==
    SelectSeq(Listing(p), LAMBDA n : PathResolve(p, n) \in files \cup Directories)

\* Variant of the expansion step that descends into the subdirectories of a
\* directory pattern; C12_ExpansionReference fails with it.
ExpandOneDescending(p) ==
    IF Stats(p) = "file"
    THEN IF EndsWith(p, ".jar") THEN <<p>> ELSE <<>>
    ELSE IF Stats(p) = "directory"
    THEN LET names == ReadDir(p)
             jars == SelectSeq(names, LAMBDA n : EndsWith(n, ".jar"))
             subs == SelectSeq(names, LAMBDA n : PathResolve(p, n) \in Directories)
             below(d) == LET inner == SelectSeq(ReadDir(d), LAMBDA n : EndsWith(n, ".jar"))
                         IN  [i \in 1..Len(inner) |-> PathResolve(d, inner[i])]
         IN  [i \in 1..Len(jars) |-> PathResolve(p, jars[i])]
                \o (IF subs = <<>> THEN <<>> ELSE below(PathResolve(p, subs[1])))
    ELSE <<>>

\* the entries one pattern contributes (CustomRulePathManager.expandPaths, loop body)
ExpandOne(p) ==
    IF Stats(p) = "file"
    THEN IF EndsWith(p, ".jar") THEN <<p>> ELSE <<>>
    ELSE IF Stats(p) = "directory"
    THEN LET jars == SelectSeq(ReadDir(p), LAMBDA n : EndsWith(n, ".jar"))
         IN  [i \in 1..Len(jars) |-> PathResolve(p, jars[i])]
    ELSE <<>>

RECURSIVE ExpandSkipping(_, _)
ExpandSkipping(paths, acc) ==
    IF paths = <<>> THEN [error |-> "none", entries |-> acc]
    ELSE ExpandSkipping(Tail(paths), acc \o ExpandOne(Head(paths)))

\* Variant of expandPaths that swallows a failing stat and goes on to the next
\* pattern; C6_InvalidPathFailsFirst fails with it.
expandPathsSkippingMissing(paths) == ExpandSkipping(paths, <<>>)

RECURSIVE ExpandFrom(_, _)
ExpandFrom(paths, acc) ==
    IF paths = <<>> THEN [error |-> "none", entries |-> acc]
    ELSE IF Stats(Head(paths)) = "ENOENT"
    THEN [error |-> "invalidFilePath", entries |-> <<>>]
    ELSE ExpandFrom(Tail(paths), acc \o ExpandOne(Head(paths)))

\* CustomRulePathManager.expandPaths: throws invalidFilePath at the first
\* pattern whose stat fails, otherwise returns the collected entries
expandPaths(paths) == ExpandFrom(paths, <<>>)

-----------------------------------------------------------------------------
(* The persisted document                                                  *)

\* const EMPTY_JSON_FILE = '{}': the JSON object with no keys
EMPTY_JSON_FILE == [k \in {} |-> {}]

\* The document is absent together with its directory (nodir), absent, unreadable
\* (a read error other than ENOENT), blank
\* (empty or whitespace only), malformed (not JSON), or holds a JSON object
\* engine name -> language -> array of paths.
FileOf(kind, doc) == [kind |-> kind, doc |-> doc]

DamagedKinds == {"unreadable", "malformed"}

\* CustomRulePathManager.convertJsonDataToMap: every array becomes a Set
convertJsonDataToMap(json) ==
    [engine \in DOMAIN json |->
        [lang \in DOMAIN json[engine] |-> NewSet(json[engine][lang])]]

\* Array.from(set): the members in insertion order
ArrayFrom(set) == set

\* Variant of convertMapToJson that hands the Sets themselves to JSON.stringify,
\* which writes no member of them; C8_PersistedEqualsMemory fails with it.
convertMapToJsonWithoutArrays(map) ==
    [engine \in DOMAIN map |-> [lang \in DOMAIN map[engine] |-> <<>>]]

\* CustomRulePathManager.convertMapToJson: every Set becomes an array
convertMapToJson(map) ==
    [engine \in DOMAIN map |->
        [lang \in DOMAIN map[engine] |-> ArrayFrom(map[engine][lang])]]

\* Variant of ReadData without the ENOENT branch: an absent document is a read
\* failure like any other; C5_BlankIsEmpty fails with it.
ReadDataWithoutEnoent(f) ==
    IF f.kind \in {"absent", "nodir", "unreadable"}
    THEN [error |-> "readCustomRulePathFileFailed", kind |-> "none", doc |-> EMPTY_JSON_FILE]
    ELSE IF f.kind = "blank" THEN [error |-> "none", kind |-> "json", doc |-> EMPTY_JSON_FILE]
    ELSE [error |-> "none", kind |-> f.kind, doc |-> f.doc]

\* initialize, lines 49-70: the text handed to JSON.parse, or the error thrown
\* while reading. ENOENT and blank content are replaced by the empty document.
ReadData(f) ==
    IF f.kind \in {"absent", "nodir"}
    THEN [error |-> "none", kind |-> "json", doc |-> EMPTY_JSON_FILE]
    ELSE IF f.kind = "unreadable"
    THEN [error |-> "readCustomRulePathFileFailed", kind |-> "none", doc |-> EMPTY_JSON_FILE]
    ELSE IF f.kind = "blank" THEN [error |-> "none", kind |-> "json", doc |-> EMPTY_JSON_FILE]
    ELSE [error |-> "none", kind |-> f.kind, doc |-> f.doc]

\* Variant of initialize that answers every read or parse failure with the empty
\* document; C7_DamagedIsFatal fails with it.
initializeSwallowingErrors(init, map, f) ==
    IF init THEN [error |-> "none", map |-> map, initialized |-> TRUE]
    ELSE IF f.kind \in {"absent", "nodir", "blank", "unreadable", "malformed"}
    THEN [error |-> "none", map |-> convertJsonDataToMap(EMPTY_JSON_FILE),
          initialized |-> TRUE]
    ELSE [error |-> "none", map |-> convertJsonDataToMap(f.doc), initialized |-> TRUE]

\* CustomRulePathManager.initialize: a no-op once initialized; otherwise reads
\* and parses the document and replaces the registry by its content
initialize(init, map, f) ==
    IF init THEN [error |-> "none", map |-> map, initialized |-> TRUE]
    ELSE LET data == ReadData(f)
         IN  IF data.error # "none"
             THEN [error |-> data.error, map |-> map, initialized |-> FALSE]
             ELSE IF data.kind = "malformed"
             THEN [error |-> "SyntaxError", map |-> map, initialized |-> FALSE]
             ELSE [error |-> "none", map |-> convertJsonDataToMap(data.doc),
                   initialized |-> TRUE]

-----------------------------------------------------------------------------
(* The registry operations, as functions of the state they start from      *)

\* what a call leaves behind: the error thrown ("none" when it returns), the
\* returned list, the returned mapping (getRulePathEntries), and the registry,
\* initialized flag and document after the call
Result(error, ret, view, map, init, f) ==
    [error |-> error, ret |-> ret, view |-> view, map |-> map,
     initialized |-> init, file |-> f]

\* addPathsForLanguage, lines 85-95: one entry put under its engine and language.
\* engine.getName() is called on the attributed engine.
InsertEntry(map, engine, language, entry) ==
    LET name == engine.name
        m1 == IF ~MapHas(map, StringKey(name)) THEN MapSet(map, name, EmptyMap) ELSE map
    IN  IF language \notin DOMAIN m1[name]
        THEN MapSet(m1, name, MapSet(m1[name], language, <<entry>>))
        ELSE MapSet(m1, name, MapSet(m1[name], language, SetAdd(m1[name][language], entry)))

RECURSIVE InsertEntries(_, _, _)
\* addPathsForLanguage, lines 84-96: classpathEntries.forEach. engine.getName()
\* on an undefined engine throws a TypeError, which ends the loop and the call;
\* the entries handled before it stay inserted.
InsertEntries(map, entries, language) ==
    IF entries = <<>> THEN [threw |-> FALSE, map |-> map]
    ELSE LET engine == determineEngineForPath(Head(entries))
         IN  IF engine.type = "undefined"
             THEN [threw |-> TRUE, map |-> map]
             ELSE InsertEntries(InsertEntry(map, engine, language, Head(entries)),
                                Tail(entries), language)

\* CustomRulePathManager.saveCustomClasspaths: the whole document is rewritten
\* from the registry; a failing mkdir or write leaves the document as it was
\* FileHandler.mkdirIfNotExists on the document's directory
mkdirIfNotExists(f) == IF f.kind = "nodir" THEN FileOf("absent", EMPTY_JSON_FILE) ELSE f

\* FileHandler.writeFile: fails when the directory does not exist, otherwise
\* replaces the whole document
writeFile(f, content) ==
    IF f.kind = "nodir" THEN [error |-> "ENOENT", file |-> f]
    ELSE [error |-> "none", file |-> FileOf("json", content)]

\* two documents merged: every engine, language and path of either
MergeDocs(a, b) ==
    [e \in DOMAIN a \cup DOMAIN b |->
        LET la == IF e \in DOMAIN a THEN a[e] ELSE EmptyMap
            lb == IF e \in DOMAIN b THEN b[e] ELSE EmptyMap
        IN  [l \in DOMAIN la \cup DOMAIN lb |->
                NewSet((IF l \in DOMAIN la THEN la[l] ELSE <<>>)
                        \o (IF l \in DOMAIN lb THEN lb[l] ELSE <<>>))]]

\* Variant of saveCustomClasspaths that re-reads the document and writes its
\* content merged with the registry; C14_LostUpdate fails with it.
saveCustomClasspathsMerging(init, map, f, canWrite) ==
    LET i == initialize(init, map, f)
    IN  IF i.error # "none" THEN [error |-> i.error, file |-> f]
        ELSE IF ~canWrite THEN [error |-> "writeCustomRulePathFileFailed", file |-> f]
        ELSE LET onDisk == IF f.kind = "json" THEN f.doc ELSE EMPTY_JSON_FILE
             IN  [error |-> "none",
                  file |-> FileOf("json", MergeDocs(onDisk, convertMapToJson(i.map)))]

\* CustomRulePathManager.saveCustomClasspaths: on a read-only scanner home the
\* directory cannot be made nor the document written, and nothing changes
saveCustomClasspaths(init, map, f, canWrite) ==
    LET i == initialize(init, map, f)
    IN  IF i.error # "none" THEN [error |-> i.error, file |-> f]
        ELSE IF ~canWrite THEN [error |-> "writeCustomRulePathFileFailed", file |-> f]
        ELSE LET fileContent == convertMapToJson(i.map)
                 d == mkdirIfNotExists(f)
                 w == writeFile(d, fileContent)
             IN  IF w.error # "none"
                 THEN [error |-> "writeCustomRulePathFileFailed", file |-> d]
                 ELSE [error |-> "none", file |-> w.file]

\* the entries of a list that the registry does not hold yet for the language,
\* each once
RECURSIVE NewlyInserted(_, _, _, _)
NewlyInserted(map, language, entries, acc) ==
    IF entries = <<>> THEN acc
    ELSE LET p == Head(entries)
             e == determineEngineForPath(p)
             held == /\ e.type # "undefined"
                     /\ e.name \in DOMAIN map
                     /\ language \in DOMAIN map[e.name]
                     /\ SeqContains(map[e.name][language], p)
         IN  NewlyInserted(map, language, Tail(entries),
                           IF held \/ SeqContains(acc, p) THEN acc ELSE Append(acc, p))

\* Variant of addPathsForLanguage that restores the registry it started from when
\* the save fails; C20_WriteFailureKeepsMemory fails with it.
addPathsForLanguageRollingBack(init, map, f, canWrite, language, paths) ==
    LET i == initialize(init, map, f)
    IN  IF i.error # "none"
        THEN Result(i.error, <<>>, EmptyMap, i.map, i.initialized, f)
        ELSE LET x == expandPaths(paths)
             IN  IF x.error # "none"
                 THEN Result(x.error, <<>>, EmptyMap, i.map, TRUE, f)
                 ELSE LET ins == InsertEntries(i.map, x.entries, language)
                          s == saveCustomClasspaths(TRUE, ins.map, f, canWrite)
                      IN  IF ins.threw
                          THEN Result("TypeError", <<>>, EmptyMap, ins.map, TRUE, f)
                          ELSE IF s.error # "none"
                          THEN Result(s.error, <<>>, EmptyMap, i.map, TRUE, f)
                          ELSE Result("none", x.entries, EmptyMap, ins.map, TRUE, s.file)

\* Variant of addPathsForLanguage that returns only the paths the call inserted;
\* C13_ReturnsFullExpansion fails with it.
addPathsForLanguageReturningInserted(init, map, f, canWrite, language, paths) ==
    LET i == initialize(init, map, f)
    IN  IF i.error # "none"
        THEN Result(i.error, <<>>, EmptyMap, i.map, i.initialized, f)
        ELSE LET x == expandPaths(paths)
             IN  IF x.error # "none"
                 THEN Result(x.error, <<>>, EmptyMap, i.map, TRUE, f)
                 ELSE LET ins == InsertEntries(i.map, x.entries, language)
                          s == saveCustomClasspaths(TRUE, ins.map, f, canWrite)
                      IN  IF ins.threw
                          THEN Result("TypeError", <<>>, EmptyMap, ins.map, TRUE, f)
                          ELSE IF s.error # "none"
                          THEN Result(s.error, <<>>, EmptyMap, ins.map, TRUE, f)
                          ELSE Result("none", NewlyInserted(i.map, language, x.entries, <<>>),
                                      EmptyMap, ins.map, TRUE, s.file)

\* CustomRulePathManager.addPathsForLanguage
addPathsForLanguage(init, map, f, canWrite, language, paths) ==
    LET i == initialize(init, map, f)
    IN  IF i.error # "none"
        THEN Result(i.error, <<>>, EmptyMap, i.map, i.initialized, f)
        ELSE LET x == expandPaths(paths)
             IN  IF x.error # "none"
                 THEN Result(x.error, <<>>, EmptyMap, i.map, TRUE, f)
                 ELSE LET ins == InsertEntries(i.map, x.entries, language)
                          s == saveCustomClasspaths(TRUE, ins.map, f, canWrite)
                      IN  IF ins.threw
                          THEN Result("TypeError", <<>>, EmptyMap, ins.map, TRUE, f)
                          ELSE IF s.error # "none"
                          THEN Result(s.error, <<>>, EmptyMap, ins.map, TRUE, f)
                          ELSE Result("none", x.entries, EmptyMap, ins.map, TRUE, s.file)

\* getMatchingPaths, lines 111-121: the filter predicate. The Map is asked for
\* the engine object that determineEngineForPath returned.
IsRegistered(map, language, p) ==
    LET e == determineEngineForPath(p)
    IN  /\ MapHas(map, e)
        /\ language \in DOMAIN map[e.name]
        /\ SeqContains(map[e.name][language], p)

\* Variant of getMatchingPaths that registers what it expands, as
\* addPathsForLanguage does; C9_GetMatchingReadOnly fails with it.
getMatchingPathsRegistering(init, map, f, language, paths) ==
    addPathsForLanguage(init, map, f, TRUE, language, paths)

\* CustomRulePathManager.getMatchingPaths
getMatchingPaths(init, map, f, language, paths) ==
    LET i == initialize(init, map, f)
    IN  IF i.error # "none"
        THEN Result(i.error, <<>>, EmptyMap, i.map, i.initialized, f)
        ELSE LET x == expandPaths(paths)
             IN  IF x.error # "none"
                 THEN Result(x.error, <<>>, EmptyMap, i.map, TRUE, f)
                 ELSE Result("none",
                             SelectSeq(x.entries, LAMBDA p : IsRegistered(i.map, language, p)),
                             EmptyMap, i.map, TRUE, f)

RECURSIVE DeleteEntries(_, _, _, _)
\* removePathsForLanguage, lines 134-144: expandedPaths.forEach. The Map is
\* asked for the engine object that determineEngineForPath returned.
DeleteEntries(map, entries, language, deleted) ==
    IF entries = <<>> THEN [map |-> map, deleted |-> deleted]
    ELSE LET p == Head(entries)
             e == determineEngineForPath(p)
         IN  IF /\ MapHas(map, e)
                /\ language \in DOMAIN map[e.name]
                /\ SeqContains(map[e.name][language], p)
             THEN DeleteEntries(
                      MapSet(map, e.name,
                             MapSet(map[e.name], language, SetDelete(map[e.name][language], p))),
                      Tail(entries), language, Append(deleted, p))
             ELSE DeleteEntries(map, Tail(entries), language, deleted)

\* CustomRulePathManager.removePathsForLanguage
removePathsForLanguage(init, map, f, canWrite, language, paths) ==
    LET i == initialize(init, map, f)
    IN  IF i.error # "none"
        THEN Result(i.error, <<>>, EmptyMap, i.map, i.initialized, f)
        ELSE LET x == expandPaths(paths)
             IN  IF x.error # "none"
                 THEN Result(x.error, <<>>, EmptyMap, i.map, TRUE, f)
                 ELSE LET del == DeleteEntries(i.map, x.entries, language, <<>>)
                          s == saveCustomClasspaths(TRUE, del.map, f, canWrite)
                      IN  IF s.error # "none"
                          THEN Result(s.error, <<>>, EmptyMap, del.map, TRUE, f)
                          ELSE Result("none", del.deleted, EmptyMap, del.map, TRUE, s.file)

\* CustomRulePathManager.getRulePathEntries
getRulePathEntries(init, map, f, engine) ==
    LET i == initialize(init, map, f)
    IN  IF i.error # "none"
        THEN Result(i.error, <<>>, EmptyMap, i.map, i.initialized, f)
        ELSE IF ~MapHas(i.map, StringKey(engine))
        THEN Result("none", <<>>, EmptyMap, i.map, TRUE, f)
        ELSE Result("none", <<>>, i.map[engine], i.map, TRUE, f)

-----------------------------------------------------------------------------
(* The state machine                                                       *)

EngineNames == {"eslint", "pmd", "cpd"}

\* the (engine, language, path) triples a registry holds
Slots(map) ==
    {<<e, l, map[e][l][i]>> : <<e, l, i>> \in
        {<<e, l, i>> \in (DOMAIN map) \X Languages \X (1..Len(DirListing)) :
            l \in DOMAIN map[e] /\ i <= Len(map[e][l])}}

\* the paths a registry holds
PathsOf(map) == {t[3] : t \in Slots(map)}

\* history: for each path entering the registry in a step from old to new, whether
\* it existed and had the archive extension at that moment
Entering(old, new) ==
    {[path |-> p, existed |-> Stats(p) # "ENOENT", archive |-> EndsWith(p, ".jar")] :
        p \in PathsOf(new) \ PathsOf(old)}

NoCall ==
    [op |-> "none", language |-> "", paths |-> <<>>, engine |-> "",
     error |-> "none", ret |-> <<>>, view |-> EmptyMap,
     pre |-> EmptyMap, loaded |-> EmptyMap, initBefore |-> FALSE,
     fileBefore |-> FileOf("absent", EMPTY_JSON_FILE), prevAdd |-> "no"]

\* history record of a call that started in the current state and ended as r
CallRecord(op, language, paths, engine, r) ==
    [op |-> op, language |-> language, paths |-> paths, engine |-> engine,
     error |-> r.error, ret |-> r.ret, view |-> r.view,
     pre |-> pathsByLanguageByEngine,
     loaded |-> initialize(initialized, pathsByLanguageByEngine, file).map,
     initBefore |-> initialized,
     fileBefore |-> file,
     prevAdd |-> IF /\ last.op = "addPathsForLanguage"
                    /\ \/ op = "getRulePathEntries"
                       \/ last.language = language /\ last.paths = paths
                 THEN last.error ELSE "no"]

\* the state after a call that ended as r
Finish(r, rec) ==
    /\ pathsByLanguageByEngine' = r.map
    /\ initialized' = r.initialized
    /\ file' = r.file
    /\ entered' = entered \cup Entering(pathsByLanguageByEngine, r.map)
    /\ last' = rec
    /\ UNCHANGED <<engines, writable, files>>
    /\ UNCHANGED others

-----------------------------------------------------------------------------
(* Engine selection and rule filters (the ESLint engine adapter)           *)

\* longest engine filter, target list and rule list handed to one evaluation
MaxFilter == 2
MaxTargets == 2
MaxRules == 2

\* the names an ESLint engine instance can have (strategy.getEngine())
EslintNames == {"eslint", "eslint-lwc", "eslint-typescript"}

\* the values an engine filter can hold
EngineFilterValues == {"eslint", "eslint-lwc", "pmd"}
FilterValueLists == UNION {[1..n -> EngineFilterValues] : n \in 0..MaxFilter}

\* CUSTOM_CONFIG
CUSTOM_CONFIG_EslintConfig == "EslintConfig"
CUSTOM_CONFIG_PmdConfig == "PmdConfig"

\* engineOptions, a Map from option name to value
EngineOptionMaps ==
    {[k \in ks |-> "/cfg"] : ks \in SUBSET {CUSTOM_CONFIG_EslintConfig, CUSTOM_CONFIG_PmdConfig}}

\* engineUtils.isCustomRun: the invocation names a custom configuration for
\* this engine family
engineUtils_isCustomRun(configName, engineOptions) == configName \in DOMAIN engineOptions

\* EslintProcessHelper.isCustomRun
isCustomRun(engineOptions) ==
    engineUtils_isCustomRun(CUSTOM_CONFIG_EslintConfig, engineOptions)

\* engineUtils.isFilterEmptyOrNameInFilter
isFilterEmptyOrNameInFilter(engineName, filterValues) ==
    filterValues = <<>> \/ SeqContains(filterValues, engineName)

\* Variant of isEngineRequested that leaves the custom run out of account;
\* C15_EngineRequested fails with it.
isEngineRequestedIgnoringCustom(name, filterValues, engineOptions) ==
    isFilterEmptyOrNameInFilter(name, filterValues)

\* BaseEslintEngine.isEngineRequested, of the engine instance called name
isEngineRequested(name, filterValues, engineOptions) ==
    /\ ~isCustomRun(engineOptions)
    /\ isFilterEmptyOrNameInFilter(name, filterValues)

\* JavaScript values of the expression shouldEngineRun returns, and a && b
JsBool(b) == IF b THEN "true" ELSE "false"
Truthy(v) == v = "true"
JsAnd(a, b) == IF Truthy(a) THEN b ELSE a

\* a target list handed to shouldEngineRun: undefined, or an array of targets
AbsentTargets == [present |-> FALSE, items |-> <<>>]
SampleTarget == [target |-> "src", paths |-> <<"src/a.js">>]
TargetLists ==
    {AbsentTargets} \cup
    {[present |-> TRUE, items |-> [i \in 1..n |-> SampleTarget]] : n \in 0..MaxTargets}

\* the rules of the selection's universe
RuleR ==
    [name |-> "no-eval", engine |-> "eslint", categories |-> {"A"}, rulesets |-> {"X"},
     languages |-> {"javascript"}]
RuleS ==
    [name |-> "no-var", engine |-> "eslint-lwc", categories |-> {"B"}, rulesets |-> {"Y"},
     languages |-> {"javascript"}]
SampleRules == {RuleR, RuleS}
RuleLists == UNION {[1..n -> SampleRules] : n \in 0..MaxRules}

\* Variant of shouldEngineRun that does not look at the targets;
\* C16_ShouldEngineRun fails with it.
shouldEngineRunWithoutTargets(ruleGroups, rules, target, engineOptions) ==
    JsAnd(JsBool(~isCustomRun(engineOptions)), JsBool(Len(rules) > 0))

\* BaseEslintEngine.shouldEngineRun: the value of
\* !isCustomRun && (target && target.length > 0) && rules.length > 0
shouldEngineRun(ruleGroups, rules, target, engineOptions) ==
    JsAnd(JsAnd(JsBool(~isCustomRun(engineOptions)),
                IF target.present THEN JsBool(Len(target.items) > 0) ELSE "undefined"),
          JsBool(Len(rules) > 0))

\* a list flag of the command: not given, or its values; the rulename flag is
\* a string, empty when not given
NoFlag == [given |-> FALSE, values |-> <<>>]
Flag(values) == [given |-> TRUE, values |-> values]
FlagSets ==
    [category : {NoFlag, Flag(<<>>), Flag(<<"A">>), Flag(<<"B">>), Flag(<<"A", "B">>)},
     ruleset : {NoFlag, Flag(<<"X">>), Flag(<<"Y">>)},
     language : {NoFlag, Flag(<<"javascript">>)},
     rulename : {"", "no-eval"},
     engine : {NoFlag, Flag(<<"eslint">>)}]

\* new CategoryFilter(values) and its siblings
Filter(kind, values) == [kind |-> kind, values |-> values]

\* this.flags.x && this.flags.x.length
FlagHasValues(flag) == flag.given /\ Len(flag.values) > 0

\* Variant of buildRuleFilters that makes one filter for each value of a list
\* flag; C17_FilterComposition fails with it.
buildRuleFiltersPerValue(flags) ==
    LET each(kind, flag) ==
            IF FlagHasValues(flag)
            THEN [i \in 1..Len(flag.values) |-> Filter(kind, <<flag.values[i]>>)]
            ELSE <<>>
    IN  each("category", flags.category) \o each("ruleset", flags.ruleset)
            \o each("language", flags.language)
            \o (IF flags.rulename # "" THEN <<Filter("rulename", <<flags.rulename>>)>> ELSE <<>>)
            \o each("engine", flags.engine)

\* ScannerCommand.buildRuleFilters
buildRuleFilters(flags) ==
    (IF FlagHasValues(flags.category)
        THEN <<Filter("category", flags.category.values)>> ELSE <<>>)
    \o (IF FlagHasValues(flags.ruleset)
        THEN <<Filter("ruleset", flags.ruleset.values)>> ELSE <<>>)
    \o (IF FlagHasValues(flags.language)
        THEN <<Filter("language", flags.language.values)>> ELSE <<>>)
    \o (IF flags.rulename # ""
        THEN <<Filter("rulename", <<flags.rulename>>)>> ELSE <<>>)
    \o (IF FlagHasValues(flags.engine)
        THEN <<Filter("engine", flags.engine.values)>> ELSE <<>>)

\* the rule's attribute set for a filter kind
AttributeSet(rule, kind) ==
    CASE kind = "category" -> rule.categories
      [] kind = "ruleset" -> rule.rulesets
      [] kind = "language" -> rule.languages
      [] kind = "rulename" -> {rule.name}
      [] kind = "engine" -> {rule.engine}

\* RuleFilter.matchesRule: the rule's attribute set shares a value with the filter's
matchesRule(filter, rule) == AttributeSet(rule, filter.kind) \cap Range(filter.values) # {}

\* the rule passes a filter list: every filter of the list matches it
ruleSatisfiesFilterConstraints(rule, filters) ==
    \A i \in 1..Len(filters) : matchesRule(filters[i], rule)

\* no evaluation made yet
NoQuery == [fn |-> "none"]

-----------------------------------------------------------------------------
(* The rule catalog of an ESLint engine                                    *)

\* most builds of the catalog that the history counts
MaxBuilds == 2

\* a native rule as cli.getRules() hands it out: its key and its meta; a rule
\* can lack meta.docs
ESRule(name, deprecated, category, url) ==
    [name |-> name, deprecated |-> deprecated, hasDocs |-> TRUE,
     category |-> category, url |-> url]
ESRuleWithoutDocs(name) ==
    [name |-> name, deprecated |-> FALSE, hasDocs |-> FALSE, category |-> "", url |-> ""]

\* the native rule sets the linter can hand out, in the Map's iteration order;
\* the set changes when a plugin is installed or the linter upgraded
NativeRuleSets ==
    << <<ESRule("no-eval", FALSE, "Best Practices", "https://eslint.org/no-eval"),
         ESRule("no-with", TRUE, "Best Practices", "https://eslint.org/no-with"),
         ESRule("no-var", FALSE, "ECMAScript 6", "https://eslint.org/no-var"),
         ESRule("eqeqeq", FALSE, "Best Practices", "https://eslint.org/eqeqeq")>>,
       <<ESRule("no-eval", FALSE, "Best Practices", "https://eslint.org/no-eval"),
         ESRule("eqeqeq", FALSE, "Best Practices", "https://eslint.org/eqeqeq")>>,
       <<ESRule("no-eval", FALSE, "Best Practices", "https://eslint.org/no-eval"),
         ESRuleWithoutDocs("local-rule")>> >>

\* Variant of filterDisallowedRules that keeps the deprecated rules as well;
\* C22_CatalogGroups fails with it.
filterDisallowedRulesKeepingAll(rulesByName) == rulesByName

\* EslintStrategyHelper.filterDisallowedRules, which the strategy applies: every
\* rule but the deprecated ones
filterDisallowedRules(rulesByName) == SelectSeq(rulesByName, LAMBDA r : ~r.deprecated)

\* BaseEslintEngine.processRule (the strategy's defaultEnabled and defaultConfig
\* are left out)
processRule(engineName, key, docs) ==
    [engine |-> engineName, sourcepackage |-> engineName, name |-> key,
     categories |-> <<docs.category>>, rulesets |-> <<docs.category>>,
     languages |-> <<"javascript">>, url |-> docs.url]

\* getCatalog, lines 131-138: the rule's URL appended to its category's group,
\* the group made at the end of categoryMap when the category is new
PushToCategory(categoryMap, engineName, categoryName, url) ==
    IF \E i \in 1..Len(categoryMap) : categoryMap[i].name = categoryName
    THEN [i \in 1..Len(categoryMap) |->
            IF categoryMap[i].name = categoryName
            THEN [categoryMap[i] EXCEPT !.paths = Append(@, url)]
            ELSE categoryMap[i]]
    ELSE Append(categoryMap, [name |-> categoryName, engine |-> engineName, paths |-> <<url>>])

\* getCatalog, lines 125-140: the forEach over the allowed rules; reading
\* meta.docs.category of a rule without docs throws
RECURSIVE ConvertRules(_, _, _, _)
ConvertRules(allRules, engineName, rules, categoryMap) ==
    IF allRules = <<>> THEN [threw |-> FALSE, rules |-> rules, categoryMap |-> categoryMap]
    ELSE LET esRule == Head(allRules)
         IN  IF ~esRule.hasDocs
             THEN [threw |-> TRUE, rules |-> rules, categoryMap |-> categoryMap]
             ELSE ConvertRules(Tail(allRules), engineName,
                               Append(rules, processRule(engineName, esRule.name, esRule)),
                               PushToCategory(categoryMap, engineName, esRule.category,
                                              esRule.url))

\* this.catalog before the first build
NoCatalog == [built |-> FALSE, categories |-> <<>>, rules |-> <<>>, rulesets |-> <<>>]

\* getCatalog, lines 117-146: the catalog built from a native rule set, or the throw
BuildCatalog(engineName, nativeRules) ==
    LET c == ConvertRules(filterDisallowedRules(nativeRules), engineName, <<>>, <<>>)
    IN  IF c.threw THEN [threw |-> TRUE, catalog |-> NoCatalog]
        ELSE [threw |-> FALSE,
              catalog |-> [built |-> TRUE, categories |-> c.categoryMap, rules |-> c.rules,
                           rulesets |-> <<>>]]

\* Variant of getCatalog without the test of this.catalog: every call builds;
\* C18_CatalogWriteOnce fails with it.
getCatalogRebuilding(e) ==
    IF ~e.cliWorks
    THEN [threw |-> TRUE, fetched |-> FALSE, catalog |-> e.catalog, returned |-> NoCatalog]
    ELSE LET b == BuildCatalog(e.name, NativeRuleSets[e.native])
         IN  IF b.threw
             THEN [threw |-> TRUE, fetched |-> TRUE, catalog |-> e.catalog,
                   returned |-> NoCatalog]
             ELSE [threw |-> FALSE, fetched |-> TRUE, catalog |-> b.catalog,
                   returned |-> b.catalog]

\* BaseEslintEngine.getCatalog on the engine instance e: whether it threw,
\* whether it fetched the native rules, this.catalog afterwards, and the
\* catalog returned. createCLIEngine throws when the linter cannot be made.
getCatalog(e) ==
    IF e.catalog.built
    THEN [threw |-> FALSE, fetched |-> FALSE, catalog |-> e.catalog, returned |-> e.catalog]
    ELSE IF ~e.cliWorks
    THEN [threw |-> TRUE, fetched |-> FALSE, catalog |-> e.catalog, returned |-> NoCatalog]
    ELSE LET b == BuildCatalog(e.name, NativeRuleSets[e.native])
         IN  IF b.threw
             THEN [threw |-> TRUE, fetched |-> TRUE, catalog |-> e.catalog,
                   returned |-> NoCatalog]
             ELSE [threw |-> FALSE, fetched |-> TRUE, catalog |-> b.catalog,
                   returned |-> b.catalog]

\* a new engine instance with its environment: no catalog; the linter works and
\* hands out the first native rule set. History: the outcome of the last
\* getCatalog ("none" before the first), what it returned, whether it fetched
\* and from which native rule set; the number of completed builds; the catalog
\* of the first completed build.
NewEslint ==
    [name |-> "eslint", catalog |-> NoCatalog, cliWorks |-> TRUE, native |-> 1,
     call |-> "none", returned |-> NoCatalog, fetched |-> FALSE, nativeAtCall |-> 1,
     builds |-> 0, first |-> NoCatalog]

-----------------------------------------------------------------------------
(* Running an ESLint engine over targets                                   *)

\* most targets handed to one invocation
MaxRunTargets == 3

\* the engines of one invocation, and the extension each strategy supports
RunEngines == {"eslint", "eslint-typescript"}
SupportedExtension(engine) == IF engine = "eslint-typescript" THEN ".ts" ELSE ".js"

\* strategy.filterUnsupportedPaths: the paths with the engine's extension
filterUnsupportedPaths(engine, paths) ==
    SelectSeq(paths, LAMBDA f : EndsWith(f, SupportedExtension(engine)))

\* the path lists a target can have, and the targets of an invocation
TargetPaths ==
    {<<"src/d.js", "src/a.js", "src/b.js">>, <<"src/c.ts">>, <<"src/a.js", "src/c.ts">>,
     <<"src/broken.js">>, <<>>}
RunTargetLists ==
    UNION {[1..n -> {[target |-> "src", paths |-> ps] : ps \in TargetPaths}] :
                n \in 0..MaxRunTargets}

\* the rule lists handed to run
RunRuleLists == {<<>>, <<RuleR>>, <<RuleR, RuleS>>}

\* BaseEslintEngine.configureRules: rule name -> the level it runs at (rules
\* carry no defaultConfig in this model)
configureRules(rules) == [n \in {rules[i].name : i \in 1..Len(rules)} |-> "error"]

\* DEFAULT_ENV_VARS
DEFAULT_ENV_VARS ==
    [k \in {"es6", "node", "browser", "webextensions", "jasmine", "jest", "jquery", "mocha"}
        |-> TRUE]

\* an object without properties
EmptyObject == [k \in {} |-> TRUE]

\* {...a, ...b}: the properties of both, those of b winning
Spread(a, b) == [k \in DOMAIN a \cup DOMAIN b |-> IF k \in DOMAIN b THEN b[k] ELSE a[k]]

\* what strategy.getRunConfig returns, as far as run reads it: no baseConfig, a
\* baseConfig without env, or a baseConfig with env
NoBaseConfig == [hasBaseConfig |-> FALSE, hasEnv |-> FALSE, env |-> EmptyObject]
BaseConfigWithoutEnv == [hasBaseConfig |-> TRUE, hasEnv |-> FALSE, env |-> EmptyObject]
BaseConfigWithEnv(env) == [hasBaseConfig |-> TRUE, hasEnv |-> TRUE, env |-> env]
RunConfigs ==
    {NoBaseConfig, BaseConfigWithoutEnv,
     BaseConfigWithEnv([k \in {"browser", "amd"} |-> k = "amd"]),
     BaseConfigWithEnv([k \in {"node"} |-> FALSE])}

\* engineOptions as far as run reads them: the parsed value of the env option,
\* when the option is there
NoEnvOption == [hasEnv |-> FALSE, env |-> EmptyObject]
EnvOption(env) == [hasEnv |-> TRUE, env |-> env]
RunOptions ==
    {NoEnvOption,
     EnvOption([k \in {"browser", "jest"} |-> k = "browser"]),
     EnvOption([k \in {"amd", "worker"} |-> k = "worker"])}

\* Variant of the env merge in which the built-in defaults are spread last;
\* C26_EnvPrecedence fails with it.
MergeEnvDefaultsLast(runConfig, engineOptions) ==
    Spread(Spread(runConfig.env, engineOptions.env), DEFAULT_ENV_VARS)

\* run, lines 228-234: config[baseConfig][env] =
\* {...DEFAULT_ENV_VARS, ...config[baseConfig][env], ...envOverride}
MergeEnv(runConfig, engineOptions) ==
    LET baseEnv == IF runConfig.hasBaseConfig /\ runConfig.hasEnv
                   THEN runConfig.env ELSE EmptyObject
        envOverride == IF engineOptions.hasEnv THEN engineOptions.env ELSE EmptyObject
    IN  Spread(Spread(DEFAULT_ENV_VARS, baseEnv), envOverride)

\* The linter (cli.executeOnFiles), outside this program: the messages it has
\* for a file, of which it reports those of configured rules and the parse
\* errors (no rule id); it throws on a file it cannot read
ESMessage(ruleId, line) ==
    [ruleId |-> ruleId, line |-> line, column |-> 1, severity |-> 2,
     message |-> "found at line"]
MessagesOf(f) ==
    IF f = "src/a.js" THEN <<ESMessage("no-eval", 3), ESMessage("no-var", 1)>>
    ELSE IF f = "src/d.js" THEN <<ESMessage("", 9)>>
    ELSE IF f = "src/c.ts" THEN <<ESMessage("no-var", 4)>>
    ELSE <<>>
Unreadable(f) == f = "src/broken.js"

\* the order in which the linter reports the files it was given
FileRank(f) ==
    CASE f = "src/a.js" -> 1 [] f = "src/b.js" -> 2 [] f = "src/c.ts" -> 3
      [] f = "src/d.js" -> 4 [] OTHER -> 5
ReportOrder(paths) ==
    LET S == Range(paths)
        nth[k \in 1..Cardinality(S)] ==
            CHOOSE f \in S : Cardinality({g \in S : FileRank(g) < FileRank(f)}) = k - 1
    IN  [k \in 1..Cardinality(S) |-> nth[k]]

\* cli.executeOnFiles(paths) under a configuration: it throws, or reports one
\* ESResult for each file
executeOnFiles(config, paths) ==
    IF \E i \in 1..Len(paths) : Unreadable(paths[i])
    THEN [threw |-> TRUE, report |-> <<>>]
    ELSE LET order == ReportOrder(paths)
         IN  [threw |-> FALSE,
              report |-> [i \in 1..Len(order) |->
                    [filePath |-> order[i],
                     messages |-> SelectSeq(MessagesOf(order[i]),
                                    LAMBDA m : m.ruleId = "" \/ m.ruleId \in DOMAIN config.rules)]]]

\* cli.getRules() as toRuleResult reads it: the type and documentation URL of a
\* known rule
RuleMetaKnown(ruleId) == ruleId \in {"no-eval", "no-var"}
RuleMetaType(ruleId) == IF ruleId = "no-eval" THEN "problem" ELSE "suggestion"

\* EslintProcessHelper.toRuleResult
toRuleResult(engineName, fileName, messages) ==
    [engine |-> engineName, fileName |-> fileName,
     violations |-> [i \in 1..Len(messages) |->
        [line |-> messages[i].line, column |-> messages[i].column,
         severity |-> messages[i].severity, message |-> messages[i].message,
         ruleName |-> messages[i].ruleId,
         category |-> IF RuleMetaKnown(messages[i].ruleId)
                      THEN RuleMetaType(messages[i].ruleId) ELSE "problem",
         url |-> IF RuleMetaKnown(messages[i].ruleId)
                 THEN "https://eslint.org/" \o messages[i].ruleId ELSE ""]]]

\* Variant of addRuleResultsFromReport without the test of the messages: every
\* reported file gets a RuleResult; C28_ResultsHaveViolations fails with it.
RECURSIVE addRuleResultsFromReportUnfiltered(_, _, _)
addRuleResultsFromReportUnfiltered(engineName, results, esResults) ==
    IF esResults = <<>> THEN results
    ELSE LET r == Head(esResults)
         IN  addRuleResultsFromReportUnfiltered(engineName,
                Append(results, toRuleResult(engineName, r.filePath, r.messages)),
                Tail(esResults))

\* EslintProcessHelper.addRuleResultsFromReport: results after the pushes
RECURSIVE addRuleResultsFromReport(_, _, _)
addRuleResultsFromReport(engineName, results, esResults) ==
    IF esResults = <<>> THEN results
    ELSE LET r == Head(esResults)
         IN  addRuleResultsFromReport(engineName,
                IF Len(r.messages) > 0
                THEN Append(results, toRuleResult(engineName, r.filePath, r.messages))
                ELSE results,
                Tail(esResults))

\* Variant in which no target is skipped; C24_OneInvocationPerTarget fails with it.
skipsNoTarget(paths) == FALSE

\* run, lines 212-216: if (target.paths.length === 0) continue
skipsTarget(paths) == Len(paths) = 0

\* Variant that keeps the filtered list in a local; C27_RewritesInPlace fails with it.
rewriteTargetInCopy(targets, i, paths) == targets

\* run, line 210: target.paths = ..., an assignment to the caller's target object
rewriteTarget(targets, i, paths) == [targets EXCEPT ![i].paths = paths]

\* no command yet. Of a command: targets are its target objects, orig (history)
\* what they were when the command made them, seenBy (history) for each target
\* the engines whose run has reached it, ran the engines whose run has been
\* called. Of the run in progress or finished last: engine, rules,
\* engineOptions and runConfig are its inputs, atStart (history) the targets
\* when it was called, next the index of the target the loop comes to, results
\* the local array, log (history) the linter invocations it made, returned and
\* error what the caller got
NoRun ==
    [pc |-> "none", targets |-> <<>>, orig |-> <<>>, seenBy |-> <<>>, ran |-> {},
     engine |-> "", rules |-> <<>>, engineOptions |-> NoEnvOption, runConfig |-> NoBaseConfig,
     atStart |-> <<>>, next |-> 1, results |-> <<>>, log |-> <<>>,
     returned |-> <<>>, error |-> ""]

\* Variant of the catch block that goes on with the next target;
\* C25_FailureAbortsRun fails with it.
afterThrowContinuing(r, entry) == [r EXCEPT !.log = Append(@, entry)]

\* run, lines 249-251: catch (e) { throw new SfdxError(...) }; the local results
\* are gone with the frame
afterThrow(r, entry) ==
    [r EXCEPT !.log = Append(@, entry), !.pc = "threw", !.results = <<>>,
              !.error = "SfdxError"]

\* run, lines 191-199: the call up to the loop
runStart(r, engine, rules, engineOptions, runConfig) ==
    [r EXCEPT !.engine = engine, !.rules = rules, !.engineOptions = engineOptions,
              !.runConfig = runConfig, !.ran = @ \cup {engine}, !.atStart = r.targets,
              !.next = 1, !.results = <<>>, !.log = <<>>, !.returned = <<>>, !.error = "",
              !.pc = IF DOMAIN configureRules(rules) = {} THEN "returned" ELSE "looping"]

\* run, lines 202-246: one turn of the loop over the targets
processTarget(r) ==
    LET i == r.next
        filtered == filterUnsupportedPaths(r.engine, r.targets[i].paths)
        turned == [r EXCEPT !.targets = rewriteTarget(r.targets, i, filtered),
                            !.seenBy[i] = Append(@, r.engine),
                            !.next = i + 1]
        paths == turned.targets[i].paths
        config == [rules |-> configureRules(r.rules),
                   env |-> MergeEnv(r.runConfig, r.engineOptions)]
        linted == executeOnFiles(config, paths)
        entry == [target |-> i, paths |-> paths, env |-> config.env, threw |-> linted.threw]
    IN  IF skipsTarget(paths) THEN turned
        ELSE IF linted.threw THEN afterThrow(turned, entry)
        ELSE [turned EXCEPT
                !.log = Append(@, entry),
                !.results = addRuleResultsFromReport(r.engine, @, linted.report)]

-----------------------------------------------------------------------------
(* The state machine, continued: initial state                             *)

\* the manager of a process that has made no call yet (constructor)
NoPeer == [map |-> EmptyMap, initialized |-> FALSE, entered |-> {}]

\* the operations that can be in flight on one manager at a time
TaskIds == {"t1", "t2"}

\* an operation not started: no position, no arguments, no locals
IdleTask == [pc |-> "idle", language |-> "", pattern |-> "", content |-> EMPTY_JSON_FILE]

\* no operation in flight; history: the document has been loaded into the
\* registry loads times, and discarded holds every registry entry that a load
\* has removed from memory
NoTasks == [ops |-> [t \in TaskIds |-> IdleTask], loads |-> 0, discarded |-> {}]

Init ==
    /\ peer = NoPeer
    /\ tasks = NoTasks
    /\ eslint = NewEslint
    /\ query = NoQuery
    /\ run = NoRun
    /\ engines \in EngineLists
    /\ pathsByLanguageByEngine = EmptyMap
    /\ initialized = FALSE
    /\ file \in {FileOf(k, EMPTY_JSON_FILE) :
                    k \in {"nodir", "absent", "blank", "json", "unreadable", "malformed"}}
    /\ writable = TRUE
    /\ files = DirEntries
    /\ entered = {}
    /\ last = NoCall

\* a call of addPathsForLanguage
Add(language, paths) ==
    LET r == addPathsForLanguage(initialized, pathsByLanguageByEngine, file, writable,
                                 language, paths)
    IN  Finish(r, CallRecord("addPathsForLanguage", language, paths, "", r))

\* a call of getMatchingPaths
GetMatching(language, paths) ==
    LET r == getMatchingPaths(initialized, pathsByLanguageByEngine, file, language, paths)
    IN  Finish(r, CallRecord("getMatchingPaths", language, paths, "", r))

\* a call of removePathsForLanguage
Remove(language, paths) ==
    LET r == removePathsForLanguage(initialized, pathsByLanguageByEngine, file, writable,
                                    language, paths)
    IN  Finish(r, CallRecord("removePathsForLanguage", language, paths, "", r))

\* a call of getRulePathEntries
GetEntries(engine) ==
    LET r == getRulePathEntries(initialized, pathsByLanguageByEngine, file, engine)
    IN  Finish(r, CallRecord("getRulePathEntries", "", <<>>, engine, r))

\* The history variable last holds one call. A caller either makes a fresh call
\* with any arguments once the record of the previous one is dropped, or follows
\* an addPathsForLanguage directly with a call on the same arguments. Every
\* sequence of calls remains possible.
Idle == last.op = "none"
FollowsAdd == last.op = "addPathsForLanguage"

AddCall == Idle /\ \E l \in Languages, ps \in PatternLists : Add(l, ps)
GetMatchingCall == Idle /\ \E l \in Languages, ps \in PatternLists : GetMatching(l, ps)
RemoveCall == Idle /\ \E l \in Languages, ps \in PatternLists : Remove(l, ps)
GetEntriesCall == Idle /\ \E e \in EngineNames : GetEntries(e)

AddAgain == FollowsAdd /\ Add(last.language, last.paths)
GetMatchingAfterAdd == FollowsAdd /\ GetMatching(last.language, last.paths)
RemoveAfterAdd == FollowsAdd /\ Remove(last.language, last.paths)
GetEntriesAfterAdd == FollowsAdd /\ \E e \in EngineNames : GetEntries(e)

\* the record of the finished call is dropped; nothing of the program changes
Forget ==
    /\ ~Idle
    /\ last' = NoCall
    /\ UNCHANGED <<engines, pathsByLanguageByEngine, initialized, file, writable, files,
                   entered>>
    /\ UNCHANGED others

\* CustomRulePathManager.create in a new process: a fresh manager over the same
\* engines, the same document and the same filesystem
Restart ==
    /\ Idle
    /\ initialized
    /\ pathsByLanguageByEngine' = EmptyMap
    /\ initialized' = FALSE
    /\ entered' = {}
    /\ UNCHANGED <<engines, file, writable, files, last>>
    /\ UNCHANGED others

\* the environment deletes a file
Unlink(f) ==
    /\ Idle
    /\ f \in files
    /\ files' = files \ {f}
    /\ UNCHANGED <<engines, pathsByLanguageByEngine, initialized, file, writable, entered,
                   last>>
    /\ UNCHANGED others

\* the environment makes the scanner home read-only, or writable again
SetWritable(w) ==
    /\ Idle
    /\ writable # w
    /\ writable' = w
    /\ UNCHANGED <<engines, pathsByLanguageByEngine, initialized, file, files, entered,
                   last>>
    /\ UNCHANGED others

Next ==
    \/ AddCall
    \/ GetMatchingCall
    \/ RemoveCall
    \/ GetEntriesCall
    \/ AddAgain
    \/ GetMatchingAfterAdd
    \/ RemoveAfterAdd
    \/ GetEntriesAfterAdd
    \/ Forget
    \/ Restart
    \/ \E f \in Deletable : Unlink(f)
    \/ \E w \in BOOLEAN : SetWritable(w)

Spec == Init /\ [][Next]_vars

-----------------------------------------------------------------------------
(* Two processes on one document                                           *)

\* The operating system runs the other process: the manager in the variables
\* pathsByLanguageByEngine, initialized and entered is the running process's,
\* peer holds the other's. The document and the filesystem are shared. A call
\* is atomic here; two processes overlap by making their calls in turn.
Switch ==
    /\ Idle
    /\ peer' = [map |-> pathsByLanguageByEngine, initialized |-> initialized,
                entered |-> entered]
    /\ pathsByLanguageByEngine' = peer.map
    /\ initialized' = peer.initialized
    /\ entered' = peer.entered
    /\ UNCHANGED <<engines, file, writable, files, last, tasks, eslint, query, run>>

\* addPathsForLanguage with a single pattern
AddOne == Idle /\ \E l \in Languages, p \in Patterns : Add(l, <<p>>)

\* two processes with the same engines, each loading by its first call
InitTwo ==
    /\ Init
    /\ engines = <<EslintEngine, PmdEngine(DirEntries)>>
    /\ file.kind \in {"nodir", "absent", "json"}

NextTwo ==
    \/ AddOne
    \/ GetEntriesCall
    \/ Forget
    \/ Switch

SpecTwo == InitTwo /\ [][NextTwo]_vars

-----------------------------------------------------------------------------
(* Overlapping operations on one manager                                   *)

\* addPathsForLanguage is an async function: it runs until it awaits file I/O,
\* and other operations of the same manager run while it is suspended. Its
\* steps, from one suspension to the next:
\*   idle    -> reading   initialize found initialized false and awaits readFile
\*   idle    -> expand    initialize found initialized true and returned
\*   reading -> expand    readFile completed; parse, replace the registry, set initialized
\*   expand  -> save      expandPaths completed; insert the entries; call saveCustomClasspaths
\*   save    -> write     serialize the registry; await mkdirIfNotExists and writeFile
\*   write   -> done      the document is written
\* entered and last are not maintained by these steps.
SetTask(t, task) == [tasks EXCEPT !.ops[t] = task]

\* a caller starts addPathsForLanguage(language, [pattern]); lines 78-79 and 40-52
StartAdd(t) ==
    /\ tasks.ops[t].pc = "idle"
    /\ \E l \in Languages, p \in Patterns :
        tasks' = SetTask(t, [pc |-> IF initialized THEN "expand" ELSE "reading",
                             language |-> l, pattern |-> p, content |-> EMPTY_JSON_FILE])
    /\ UNCHANGED <<engines, pathsByLanguageByEngine, initialized, file, writable, files,
                   entered, last, peer, eslint, query, run>>

\* readFile completes and initialize runs to its end; lines 52-75
ReadDone(t) ==
    /\ tasks.ops[t].pc = "reading"
    /\ LET data == ReadData(file)
           loaded == convertJsonDataToMap(data.doc)
       IN  IF data.error # "none" \/ data.kind = "malformed"
           THEN /\ tasks' = SetTask(t, [tasks.ops[t] EXCEPT !.pc = "failed"])
                /\ UNCHANGED <<pathsByLanguageByEngine, initialized>>
           ELSE /\ pathsByLanguageByEngine' = loaded
                /\ initialized' = TRUE
                /\ tasks' = [ops |-> [tasks.ops EXCEPT ![t].pc = "expand"],
                             loads |-> tasks.loads + 1,
                             discarded |-> tasks.discarded \cup
                                    (Slots(pathsByLanguageByEngine) \ Slots(loaded))]
    /\ UNCHANGED <<engines, file, writable, files, entered, last, peer, eslint, query, run>>

\* expandPaths completes, the entries are inserted and saveCustomClasspaths is
\* called, which awaits initialize; lines 82-98 and 161
ExpandDone(t) ==
    /\ tasks.ops[t].pc = "expand"
    /\ LET x == expandPaths(<<tasks.ops[t].pattern>>)
           ins == InsertEntries(pathsByLanguageByEngine, x.entries, tasks.ops[t].language)
       IN  IF x.error # "none"
           THEN /\ tasks' = SetTask(t, [tasks.ops[t] EXCEPT !.pc = "failed"])
                /\ UNCHANGED pathsByLanguageByEngine
           ELSE /\ pathsByLanguageByEngine' = ins.map
                /\ tasks' = SetTask(t, [tasks.ops[t] EXCEPT
                                            !.pc = IF ins.threw THEN "failed" ELSE "save"])
    /\ UNCHANGED <<engines, initialized, file, writable, files, entered, last, peer,
                   eslint, query, run>>

\* saveCustomClasspaths serializes the registry and awaits the directory and
\* the write; lines 163-166
Serialize(t) ==
    /\ tasks.ops[t].pc = "save"
    /\ tasks' = SetTask(t, [tasks.ops[t] EXCEPT
                                !.pc = "write",
                                !.content = convertMapToJson(pathsByLanguageByEngine)])
    /\ UNCHANGED <<engines, pathsByLanguageByEngine, initialized, file, writable, files,
                   entered, last, peer, eslint, query, run>>

\* mkdirIfNotExists and writeFile complete; lines 165-172 and 99
WriteDone(t) ==
    /\ tasks.ops[t].pc = "write"
    /\ LET w == writeFile(mkdirIfNotExists(file), tasks.ops[t].content)
       IN  IF ~writable \/ w.error # "none"
           THEN /\ tasks' = SetTask(t, [tasks.ops[t] EXCEPT !.pc = "failed"])
                /\ UNCHANGED file
           ELSE /\ file' = w.file
                /\ tasks' = SetTask(t, [tasks.ops[t] EXCEPT !.pc = "done"])
    /\ UNCHANGED <<engines, pathsByLanguageByEngine, initialized, writable, files,
                   entered, last, peer, eslint, query, run>>

\* the caller has the operation's result or error; the slot is free again
Settle(t) ==
    /\ tasks.ops[t].pc \in {"done", "failed"}
    /\ tasks' = SetTask(t, IdleTask)
    /\ UNCHANGED <<engines, pathsByLanguageByEngine, initialized, file, writable, files,
                   entered, last, peer, eslint, query, run>>

StartAddStep == \E t \in TaskIds : StartAdd(t)
ReadDoneStep == \E t \in TaskIds : ReadDone(t)
ExpandDoneStep == \E t \in TaskIds : ExpandDone(t)
SerializeStep == \E t \in TaskIds : Serialize(t)
WriteDoneStep == \E t \in TaskIds : WriteDone(t)
SettleStep == \E t \in TaskIds : Settle(t)

InitAsync ==
    /\ Init
    /\ engines = <<EslintEngine, PmdEngine(DirEntries)>>
    /\ file.kind \in {"absent", "json", "unreadable"}

NextAsync ==
    \/ StartAddStep
    \/ ReadDoneStep
    \/ ExpandDoneStep
    \/ SerializeStep
    \/ WriteDoneStep
    \/ SettleStep

SpecAsync == InitAsync /\ [][NextAsync]_vars

-----------------------------------------------------------------------------
(* Default status and default configuration of a rule                      *)

\* an ESRuleConfig: a severity string, or an array of a severity and options
StringConfig(severity) == [form |-> "string", text |-> severity, items |-> <<>>]
ArrayConfig(items) == [form |-> "array", text |-> "", items |-> items]
NullConfig == [form |-> "null", text |-> "", items |-> <<>>]

RuleConfigs ==
    {StringConfig("error"), StringConfig("warn"), StringConfig("off"),
     ArrayConfig(<<"error", "always">>), ArrayConfig(<<"off">>),
     ArrayConfig(<<"warn", "off">>)}

\* the rules a recommended configuration can have entries for, and the rule
\* names asked about
ConfiguredRuleNames == {"no-eval", "no-var"}
AskedRuleNames == {"no-eval", "no-var", "eqeqeq"}

\* the recommended configurations: the rules property, rule name -> ESRuleConfig
RecommendedConfigs ==
    UNION {[names -> RuleConfigs] : names \in SUBSET ConfiguredRuleNames}

\* String.prototype.indexOf and Array.prototype.indexOf with the argument
\* 'off': the first position (from 0) of the substring, or of the element, -1
\* when there is none
IndexOfOff(config) ==
    IF config.form = "string"
    THEN LET at == {i \in 1..Len(config.text) :
                        /\ i + 2 <= Len(config.text)
                        /\ SubSeq(config.text, i, i + 2) = "off"}
         IN  IF at = {} THEN -1 ELSE (CHOOSE i \in at : \A j \in at : i <= j) - 1
    ELSE LET at == {i \in 1..Len(config.items) : config.items[i] = "off"}
         IN  IF at = {} THEN -1 ELSE (CHOOSE i \in at : \A j \in at : i <= j) - 1

\* recommendedConfig.rules[ruleName]: the entry, or undefined
Recommendation(rules, ruleName) ==
    IF ruleName \in DOMAIN rules THEN rules[ruleName] ELSE NullConfig

\* Variant of getDefaultStatus that reports a rule without an entry as disabled;
\* C23_DefaultStatus fails with it.
getDefaultStatusTwoValued(rules, ruleName) ==
    LET recommendation == Recommendation(rules, ruleName)
    IN  IF recommendation.form = "null" THEN "disabled"
        ELSE IF IndexOfOff(recommendation) = 0 THEN "disabled" ELSE "enabled"

\* EslintStrategyHelper.getDefaultStatus: "null", "disabled" or "enabled"
getDefaultStatus(rules, ruleName) ==
    LET recommendation == Recommendation(rules, ruleName)
    IN  IF recommendation.form = "null" THEN "null"
        ELSE IF IndexOfOff(recommendation) = 0 THEN "disabled" ELSE "enabled"

\* EslintStrategyHelper.getDefaultConfig: the entry, or null
getDefaultConfig(rules, ruleName) ==
    LET recommendation == Recommendation(rules, ruleName)
    IN  IF recommendation.form = "null" \/ IndexOfOff(recommendation) = 0
        THEN NullConfig
        ELSE recommendation

-----------------------------------------------------------------------------
(* Evaluations of engine selection and rule filters                        *)

\* what an evaluation leaves alone: everything but its own record
selectionFrame ==
    <<engines, pathsByLanguageByEngine, initialized, file, writable, files, entered, last,
      peer, tasks, eslint, run>>

\* the controller asks an ESLint engine whether the invocation requests it
IsEngineRequestedCall ==
    /\ \E name \in EslintNames, fv \in FilterValueLists, eo \in EngineOptionMaps :
        query' = [fn |-> "isEngineRequested", name |-> name, filterValues |-> fv,
                  engineOptions |-> eo, result |-> isEngineRequested(name, fv, eo)]
    /\ UNCHANGED selectionFrame

\* the controller asks an ESLint engine whether it should run
ShouldEngineRunCall ==
    /\ \E rules \in RuleLists, target \in TargetLists, eo \in EngineOptionMaps :
        query' = [fn |-> "shouldEngineRun", rules |-> rules, target |-> target,
                  engineOptions |-> eo,
                  result |-> shouldEngineRun(<<>>, rules, target, eo)]
    /\ UNCHANGED selectionFrame

\* a command builds its filters from its flags and a rule is tested against them
SelectRuleCall ==
    /\ \E flags \in FlagSets, rule \in SampleRules :
        query' = [fn |-> "buildRuleFilters", flags |-> flags, rule |-> rule,
                  filters |-> buildRuleFilters(flags),
                  result |-> ruleSatisfiesFilterConstraints(rule, buildRuleFilters(flags))]
    /\ UNCHANGED selectionFrame

\* a strategy asks for a rule's default status and default configuration
DefaultsCall ==
    /\ \E rules \in RecommendedConfigs, ruleName \in AskedRuleNames :
        query' = [fn |-> "getDefaults", rules |-> rules, ruleName |-> ruleName,
                  status |-> getDefaultStatus(rules, ruleName),
                  config |-> getDefaultConfig(rules, ruleName)]
    /\ UNCHANGED selectionFrame

InitSelect ==
    /\ Init
    /\ engines = <<EslintEngine>>
    /\ file.kind = "absent"

NextSelect ==
    \/ IsEngineRequestedCall
    \/ ShouldEngineRunCall
    \/ SelectRuleCall
    \/ DefaultsCall

SpecSelect == InitSelect /\ [][NextSelect]_vars

-----------------------------------------------------------------------------
(* A command running ESLint engines over its targets                       *)

\* what a step of a run leaves alone
runFrame ==
    <<engines, pathsByLanguageByEngine, initialized, file, writable, files, entered, last,
      peer, tasks, eslint, query>>

\* a command makes its target objects
Command ==
    /\ run.pc = "none"
    /\ \E targets \in RunTargetLists :
        run' = [NoRun EXCEPT !.pc = "idle", !.targets = targets, !.orig = targets,
                             !.seenBy = [i \in 1..Len(targets) |-> <<>>]]
    /\ UNCHANGED runFrame

\* the command calls run on an engine that has not run yet, with the same
\* target objects, once the run before it has returned
RunCall ==
    /\ run.pc \in {"idle", "returned"}
    /\ \E engine \in RunEngines \ run.ran, rules \in RunRuleLists,
          engineOptions \in RunOptions, runConfig \in RunConfigs :
        run' = runStart(run, engine, rules, engineOptions, runConfig)
    /\ UNCHANGED runFrame

\* the loop of run comes to its next target
RunTarget ==
    /\ run.pc = "looping"
    /\ run.next <= Len(run.targets)
    /\ run' = processTarget(run)
    /\ UNCHANGED runFrame

\* the loop of run is over: return results
RunReturn ==
    /\ run.pc = "looping"
    /\ run.next > Len(run.targets)
    /\ run' = [run EXCEPT !.pc = "returned", !.returned = run.results]
    /\ UNCHANGED runFrame

InitRun ==
    /\ Init
    /\ engines = <<EslintEngine>>
    /\ file.kind = "absent"

NextRun ==
    \/ Command
    \/ RunCall
    \/ RunTarget
    \/ RunReturn

SpecRun == InitRun /\ [][NextRun]_vars

-----------------------------------------------------------------------------
(* getCatalog calls among registry operations                              *)

\* what a step of the engine instance or its environment leaves alone
catalogFrame ==
    <<engines, pathsByLanguageByEngine, initialized, file, writable, files, entered, last,
      peer, tasks, query, run>>

\* a call of getCatalog on the engine instance
GetCatalogCall ==
    /\ LET r == getCatalog(eslint)
           done == ~r.threw /\ r.fetched
       IN  eslint' = [eslint EXCEPT
                        !.catalog = r.catalog,
                        !.call = IF r.threw THEN "threw" ELSE "returned",
                        !.returned = r.returned,
                        !.fetched = r.fetched,
                        !.nativeAtCall = eslint.native,
                        !.builds = IF done /\ @ < MaxBuilds THEN @ + 1 ELSE @,
                        !.first = IF done /\ eslint.builds = 0 THEN r.catalog ELSE @]
    /\ UNCHANGED catalogFrame

\* the environment: the linter now hands out another native rule set
NativeRulesChange ==
    /\ \E n \in 1..Len(NativeRuleSets) :
        /\ n # eslint.native
        /\ eslint' = [eslint EXCEPT !.native = n]
    /\ UNCHANGED catalogFrame

\* the environment: the linter can no longer be made, or can again
LinterToggle ==
    /\ eslint' = [eslint EXCEPT !.cliWorks = ~@]
    /\ UNCHANGED catalogFrame

\* removePathsForLanguage with a single pattern
RemoveOne == Idle /\ \E l \in Languages, p \in Patterns : Remove(l, <<p>>)

InitCatalog ==
    /\ Init
    /\ engines = <<EslintEngine, PmdEngine(DirEntries)>>
    /\ file.kind = "absent"

NextCatalog ==
    \/ GetCatalogCall
    \/ NativeRulesChange
    \/ LinterToggle
    \/ AddOne
    \/ RemoveOne
    \/ Forget

SpecCatalog == InitCatalog /\ [][NextCatalog]_vars

-----------------------------------------------------------------------------
(* Vocabulary of the properties. They speak of the state right after the   *)
(* call recorded in last: the filesystem, the engines and writable are as  *)
(* the call saw them.                                                      *)

RegistryOps ==
    {"addPathsForLanguage", "getMatchingPaths", "removePathsForLanguage",
     "getRulePathEntries"}

PatternOps == {"addPathsForLanguage", "getMatchingPaths", "removePathsForLanguage"}

\* every pattern of the list names an existing filesystem entry
AllExist(paths) == \A i \in 1..Len(paths) : Stats(paths[i]) # "ENOENT"

\* the call's lazy load (or its no-op on an initialized manager) raised no error
LoadSucceeded ==
    initialize(last.initBefore, last.pre, last.fileBefore).error = "none"

\* the path is attributed to some engine
Attributable(p) == determineEngineForPath(p).type # "undefined"

\* the expansion of the call's patterns, and its attributable part
Expanded == expandPaths(last.paths).entries
AttributedExpanded == SelectSeq(Expanded, Attributable)

\* the registry holds the path under its engine's name and the language
Holds(map, language, p) ==
    LET name == determineEngineForPath(p).name
    IN  /\ Attributable(p)
        /\ name \in DOMAIN map
        /\ language \in DOMAIN map[name]
        /\ SeqContains(map[name][language], p)

\* a registry or document with every Set or array read as a set of paths
SetView(map) ==
    [e \in DOMAIN map |-> [l \in DOMAIN map[e] |-> Range(map[e][l])]]

-----------------------------------------------------------------------------
(* C1 - C3: attribution in the three pattern operations                    *)

\* C1 (round trip): when getMatchingPaths(lang, P) directly follows a completed
\* addPathsForLanguage(lang, P) on the same manager, P non-empty and all of its
\* patterns existing, it returns exactly the expanded paths of P that are
\* attributed to some engine. The code violates this: getMatchingPaths looks the
\* engine object up in a Map keyed by engine names and so returns nothing.
C1_RoundTrip ==
    ( /\ last.op = "getMatchingPaths"
      /\ last.prevAdd = "none"
      /\ last.paths # <<>>
      /\ AllExist(last.paths) )
    => /\ last.error = "none"
       /\ last.ret = AttributedExpanded

\* C2 (deletion precision): a completed removePathsForLanguage(lang, P) returns
\* exactly the expanded, attributable paths of P that the registry held for that
\* engine and language before the call, and none of them is held afterwards.
\* The code violates this: the same lookup by engine object deletes nothing.
C2_DeletionPrecision ==
    ( /\ last.op = "removePathsForLanguage"
      /\ last.error = "none" )
    => /\ Range(last.ret) =
            {p \in Range(Expanded) : Holds(last.loaded, last.language, p)}
       /\ \A p \in Range(Expanded) :
            ~Holds(pathsByLanguageByEngine, last.language, p)

\* C3 (unmatched path dropped silently): when some expanded path matches no
\* engine, addPathsForLanguage still completes (the document being writable),
\* the attributable paths are in the registry and persisted, and the unmatched
\* path is stored under no engine. The code violates this: it calls getName()
\* on the undefined engine and the call ends in a TypeError before the save.
C3_UnmatchedDropped ==
    ( /\ last.op = "addPathsForLanguage"
      /\ LoadSucceeded
      /\ AllExist(last.paths)
      /\ writable
      /\ \E p \in Range(Expanded) : ~Attributable(p) )
    => /\ last.error = "none"
       /\ \A p \in Range(AttributedExpanded) :
            Holds(pathsByLanguageByEngine, last.language, p)
       /\ \A p \in Range(Expanded) :
            ~Attributable(p) => p \notin PathsOf(pathsByLanguageByEngine)
       /\ file.kind = "json"
       /\ SetView(file.doc) = SetView(pathsByLanguageByEngine)

-----------------------------------------------------------------------------
(* C10: what the registry holds was verified                               *)

\* C10 (verified paths): every path held in the in-memory registry existed on
\* the filesystem and had the archive extension at the moment it entered the
\* registry, whether it entered by addPathsForLanguage or by the lazy load.
\* The code violates this: the lazy load takes every path of the document
\* without a stat or an extension check.
C10_VerifiedOnEntry ==
    \A p \in PathsOf(pathsByLanguageByEngine) :
        \A r \in entered : r.path = p => (r.existed /\ r.archive)

-----------------------------------------------------------------------------
(* C4 - C9: load, persistence and frame properties                         *)

\* C4 (idempotence of add): when addPathsForLanguage is called a second time in
\* a row with the same language and patterns, the second call leaves the
\* in-memory registry and the persisted document exactly as the first left them.
C4_AddIdempotent ==
    ( /\ last.op = "addPathsForLanguage"
      /\ last.prevAdd # "no" )
    => /\ pathsByLanguageByEngine = last.pre
       /\ file = last.fileBefore

\* the second of two completed adds, with paths in the registry
C4_Witness ==
    /\ last.op = "addPathsForLanguage"
    /\ last.prevAdd = "none"
    /\ last.error = "none"
    /\ last.ret # <<>>
    /\ PathsOf(pathsByLanguageByEngine) # {}

\* the document is absent, blank, or the empty document {}
IsBlank(f) ==
    \/ f.kind \in {"absent", "nodir", "blank"}
    \/ f.kind = "json" /\ f.doc = EMPTY_JSON_FILE

\* the call recorded in last, made on an initialized manager whose registry is map
AsIfLoaded(map) ==
    IF last.op = "addPathsForLanguage"
    THEN addPathsForLanguage(TRUE, map, last.fileBefore, writable, last.language, last.paths)
    ELSE IF last.op = "getMatchingPaths"
    THEN getMatchingPaths(TRUE, map, last.fileBefore, last.language, last.paths)
    ELSE IF last.op = "removePathsForLanguage"
    THEN removePathsForLanguage(TRUE, map, last.fileBefore, writable, last.language,
                                last.paths)
    ELSE getRulePathEntries(TRUE, map, last.fileBefore, last.engine)

\* C5 (blank state is the empty registry): the first operation of a manager whose
\* document is absent, blank or {} loads without error, ends as the same
\* operation ends on an empty registry (same outcome, same return value, same
\* registry and document afterwards), and getRulePathEntries returns an empty
\* mapping for every engine.
C5_BlankIsEmpty ==
    ( /\ last.op \in RegistryOps
      /\ ~last.initBefore
      /\ IsBlank(last.fileBefore) )
    => /\ LoadSucceeded
       /\ initialized
       /\ last.loaded = EmptyMap
       /\ last.error = AsIfLoaded(EmptyMap).error
       /\ last.ret = AsIfLoaded(EmptyMap).ret
       /\ pathsByLanguageByEngine = AsIfLoaded(EmptyMap).map
       /\ file = AsIfLoaded(EmptyMap).file
       /\ last.op = "getRulePathEntries" => (last.error = "none" /\ last.view = EmptyMap)

\* getRulePathEntries as the first operation, the document being absent
C5_Witness ==
    /\ last.op = "getRulePathEntries"
    /\ ~last.initBefore
    /\ last.fileBefore.kind = "absent"
    /\ last.error = "none"
    /\ last.view = EmptyMap

\* C6 (invalid path fails first): a call of addPathsForLanguage,
\* removePathsForLanguage or getMatchingPaths with a pattern that does not exist
\* fails, with the invalid-path error whenever its lazy load succeeded, and
\* neither inserts, deletes nor writes: the registry is the loaded registry and
\* the document is the document of before the call.
C6_InvalidPathFailsFirst ==
    ( /\ last.op \in PatternOps
      /\ ~AllExist(last.paths) )
    => /\ last.error # "none"
       /\ LoadSucceeded => last.error = "invalidFilePath"
       /\ pathsByLanguageByEngine = last.loaded
       /\ file = last.fileBefore

\* an add that fails on its second pattern after a first pattern that expands to
\* attributable archives
C6_Witness ==
    /\ last.op = "addPathsForLanguage"
    /\ last.error = "invalidFilePath"
    /\ Len(last.paths) = 2
    /\ Stats(last.paths[1]) # "ENOENT"
    /\ \E p \in Range(ExpandOne(last.paths[1])) : Attributable(p)
    /\ Stats(last.paths[2]) = "ENOENT"

\* C7 (damaged document is fatal): while the document is unreadable or is not
\* JSON, every operation of a manager that has not loaded it fails with the read
\* or parse error, the manager stays uninitialized with its registry untouched,
\* and the document is not overwritten.
C7_DamagedIsFatal ==
    /\ ( /\ last.op \in RegistryOps
         /\ ~last.initBefore
         /\ last.fileBefore.kind \in DamagedKinds )
       => /\ last.error =
                (IF last.fileBefore.kind = "unreadable"
                 THEN "readCustomRulePathFileFailed" ELSE "SyntaxError")
          /\ ~initialized
          /\ pathsByLanguageByEngine = last.pre
          /\ file = last.fileBefore
    /\ file.kind \in DamagedKinds => ~initialized

\* an add with existing, attributable patterns on a malformed document
C7_Witness ==
    /\ last.op = "addPathsForLanguage"
    /\ last.fileBefore.kind = "malformed"
    /\ last.error = "SyntaxError"
    /\ AllExist(last.paths)
    /\ AttributedExpanded # <<>>

C9_GetMatchingReadOnly ==
    last.op = "getMatchingPaths"
    => /\ pathsByLanguageByEngine = last.loaded
       /\ file = last.fileBefore

\* a completed getMatchingPaths whose patterns expand to attributable archives
\* that the registry does not hold
C9_Witness ==
    /\ last.op = "getMatchingPaths"
    /\ last.error = "none"
    /\ \E p \in Range(AttributedExpanded) :
            ~Holds(pathsByLanguageByEngine, last.language, p)

-----------------------------------------------------------------------------
(* C11: engine attribution                                                 *)

\* the registration indices of the engines whose matchPath accepts the path
MatchingIndices(p) == {i \in 1..Len(engines) : matchPath(engines[i], p)}

\* the least member of a non-empty set of indices
Least(S) == CHOOSE i \in S : \A j \in S : i <= j

\* the engine names under which the registry holds the path for the language
EnginesHolding(map, language, p) ==
    {e \in DOMAIN map : language \in DOMAIN map[e] /\ SeqContains(map[e][language], p)}

\* C11 (first match wins): for every path, determineEngineForPath returns the
\* engine of lowest registration index whose matchPath is true, and no engine
\* when none matches; so after a completed addPathsForLanguage every expanded
\* path is held, for the call's language, under exactly one engine name, that of
\* its first matching engine.
C11_FirstMatchWins ==
    /\ \A p \in DirEntries \cup Patterns :
        IF MatchingIndices(p) = {}
        THEN determineEngineForPath(p) = Undefined
        ELSE determineEngineForPath(p) = engines[Least(MatchingIndices(p))]
    /\ ( /\ last.op = "addPathsForLanguage"
         /\ last.error = "none" )
       => \A p \in Range(Expanded) :
            /\ MatchingIndices(p) # {}
            /\ EnginesHolding(pathsByLanguageByEngine, last.language, p) =
                    {engines[Least(MatchingIndices(p))].name}

\* a completed add of a path that two engines accept, the later-registered of
\* them not being the one it is stored under
C11_Witness ==
    /\ last.op = "addPathsForLanguage"
    /\ last.error = "none"
    /\ \E p \in Range(Expanded) :
        /\ Cardinality(MatchingIndices(p)) >= 2
        /\ \E i \in MatchingIndices(p) :
            engines[i].name \notin EnginesHolding(pathsByLanguageByEngine, last.language, p)

-----------------------------------------------------------------------------
(* C12: the expansion reference                                            *)

\* the existing direct entries of a directory that have the archive extension,
\* as full paths in listing order
DirectArchives(d) ==
    LET names == Listing(d)
        keep == {i \in 1..Len(names) :
                    /\ EndsWith(names[i], ".jar")
                    /\ (d \o "/" \o names[i]) \in files \cup Directories}
        nth[k \in 1..Cardinality(keep)] ==
            CHOOSE i \in keep : Cardinality({j \in keep : j < i}) = k - 1
    IN  [k \in 1..Cardinality(keep) |-> d \o "/" \o names[nth[k]]]

\* what one existing pattern yields
ReferenceOne(p) ==
    IF p \in Directories THEN DirectArchives(p)
    ELSE IF EndsWith(p, ".jar") THEN <<p>> ELSE <<>>

\* the reference expansion: the patterns' yields, concatenated in input order
RECURSIVE ReferenceExpansion(_)
ReferenceExpansion(paths) ==
    IF paths = <<>> THEN <<>>
    ELSE ReferenceOne(Head(paths)) \o ReferenceExpansion(Tail(paths))

-----------------------------------------------------------------------------
(* C13: what addPathsForLanguage returns                                   *)

\* Add.run: the number the add command reports as "Path(s) added"
AddRunReport(classpathEntries) == Len(classpathEntries)

\* the (engine, language, path) entries the call recorded in last put into the registry
InsertedByCall == Slots(pathsByLanguageByEngine) \ Slots(last.loaded)

\* C13 (add returns the whole expansion): a completed addPathsForLanguage returns
\* the full expanded list, all of it attributed, in expansion order: a path the
\* registry already held is returned too and a path reached through two patterns
\* is returned twice, so the number the add command reports is never less than,
\* and can exceed, the number of paths the call inserted.
C13_ReturnsFullExpansion ==
    ( /\ last.op = "addPathsForLanguage"
      /\ last.error = "none" )
    => /\ last.ret = Expanded
       /\ last.ret = AttributedExpanded
       /\ \A p \in Range(Expanded) :
            Holds(last.loaded, last.language, p) => SeqContains(last.ret, p)
       /\ AddRunReport(last.ret) >= Cardinality(InsertedByCall)

\* a completed add that returns one path twice and a path the registry already
\* held, and reports more paths than it inserted
C13_Witness ==
    /\ last.op = "addPathsForLanguage"
    /\ last.error = "none"
    /\ \E i, j \in 1..Len(last.ret) : i # j /\ last.ret[i] = last.ret[j]
    /\ \E p \in Range(last.ret) : Holds(last.loaded, last.language, p)
    /\ InsertedByCall # {}
    /\ AddRunReport(last.ret) > Cardinality(InsertedByCall)

-----------------------------------------------------------------------------
(* C20: a failing write                                                    *)

\* the call recorded in last got as far as the save: the load succeeded, every
\* pattern exists and every expanded path is attributed
ReachesSave ==
    /\ LoadSucceeded
    /\ AllExist(last.paths)
    /\ \A p \in Range(Expanded) : Attributable(p)

\* what getRulePathEntries returns for an engine from a registry
EntriesOf(map, engine) == IF engine \in DOMAIN map THEN map[engine] ELSE EmptyMap

\* C20 (failing write): an addPathsForLanguage that reaches the save while the
\* document cannot be written fails with writeCustomRulePathFileFailed; the
\* document then is what it was before the call and the registry holds every
\* expanded path of the call, nothing being rolled back; a getRulePathEntries
\* directly after returns the registry's entries, whatever the document holds.
\* When the document can be written and its directory does not exist yet, the
\* add completes and the document is written: the directory is made first.
C20_WriteFailureKeepsMemory ==
    /\ ( /\ last.op = "addPathsForLanguage"
         /\ ReachesSave
         /\ ~writable )
       => last.error = "writeCustomRulePathFileFailed"
    /\ ( /\ last.op = "addPathsForLanguage"
         /\ last.error = "writeCustomRulePathFileFailed" )
       => /\ file = last.fileBefore
          /\ pathsByLanguageByEngine =
                InsertEntries(last.loaded, Expanded, last.language).map
          /\ \A p \in Range(Expanded) :
                Holds(pathsByLanguageByEngine, last.language, p)
    /\ ( /\ last.op = "getRulePathEntries"
         /\ last.prevAdd = "writeCustomRulePathFileFailed" )
       => /\ last.error = "none"
          /\ pathsByLanguageByEngine = last.pre
          /\ last.view = EntriesOf(pathsByLanguageByEngine, last.engine)
    /\ ( /\ last.op = "addPathsForLanguage"
         /\ ReachesSave
         /\ writable
         /\ last.fileBefore.kind = "nodir" )
       => /\ last.error = "none"
          /\ file = FileOf("json", convertMapToJson(pathsByLanguageByEngine))

\* getRulePathEntries, directly after an add whose write failed, returns a path
\* that the document does not contain
C20_Witness ==
    /\ last.op = "getRulePathEntries"
    /\ last.prevAdd = "writeCustomRulePathFileFailed"
    /\ \E l \in DOMAIN last.view :
        \E p \in Range(last.view[l]) : p \notin PathsOf(file.doc)

-----------------------------------------------------------------------------
(* C14: two processes, one document                                        *)

\* C14 (lost update): with two processes on one document, after a completed
\* addPathsForLanguage of the running process the document is exactly that
\* process's in-memory registry, and it contains nothing that only the other
\* process's registry holds: what the other process added and wrote after this
\* one had loaded is gone from the document.
C14_LostUpdate ==
    ( /\ last.op = "addPathsForLanguage"
      /\ last.error = "none"
      /\ peer.initialized )
    => /\ file = FileOf("json", convertMapToJson(pathsByLanguageByEngine))
       /\ \A s \in Slots(peer.map) \ Slots(pathsByLanguageByEngine) :
            s \notin Slots(file.doc)

\* both processes loaded the empty document; the other process added one path
\* and wrote it; the running process, which had added nothing yet, then added a
\* different path, and its write removed the other's path from the document
C14_Witness ==
    /\ last.op = "addPathsForLanguage"
    /\ last.error = "none"
    /\ last.initBefore
    /\ peer.initialized
    /\ Slots(last.pre) = {}
    /\ Cardinality(Slots(peer.map)) = 1
    /\ Slots(peer.map) = Slots(last.fileBefore.doc)
    /\ InsertedByCall # {}
    /\ InsertedByCall \cap Slots(peer.map) = {}
    /\ Slots(file.doc) = InsertedByCall

-----------------------------------------------------------------------------
(* C19: the lazy load under overlapping operations                         *)

\* C19 (load at most once): under any interleaving of the manager's operations,
\* an operation started while an earlier one is suspended in file I/O included,
\* the document is loaded into the registry at most once, and no load removes
\* from memory a path that an operation inserted. The code violates this:
\* initialize tests this.initialized before it awaits readFile and sets it only
\* after, so two overlapping operations both load, and the second load replaces
\* the registry the first operation has inserted into.
C19_LoadAtMostOnce ==
    /\ tasks.loads <= 1
    /\ tasks.discarded = {}

-----------------------------------------------------------------------------
(* C15 - C17: engine selection and filter composition                      *)

\* the invocation is a custom-rule-only run for the ESLint engines
CustomRun(engineOptions) == CUSTOM_CONFIG_EslintConfig \in DOMAIN engineOptions

\* C15 (engine requested): isEngineRequested is false whenever the invocation is
\* a custom run; otherwise it is true exactly when the engine filter is empty or
\* holds this engine's name.
C15_EngineRequested ==
    query.fn = "isEngineRequested" =>
        IF CustomRun(query.engineOptions)
        THEN query.result = FALSE
        ELSE query.result <=>
                \/ Len(query.filterValues) = 0
                \/ \E i \in 1..Len(query.filterValues) : query.filterValues[i] = query.name

\* a custom run whose engine filter names the engine: not requested
C15_Witness ==
    /\ query.fn = "isEngineRequested"
    /\ CustomRun(query.engineOptions)
    /\ query.name \in Range(query.filterValues)
    /\ query.result = FALSE

\* C16 (engine should run): shouldEngineRun is false whenever the invocation is
\* a custom run; otherwise it is true exactly when the target list is present
\* with at least one target and the rule list has at least one rule.
C16_ShouldEngineRun ==
    query.fn = "shouldEngineRun" =>
        IF CustomRun(query.engineOptions)
        THEN query.result = "false"
        ELSE query.result = "true" <=>
                /\ query.target.present
                /\ Len(query.target.items) >= 1
                /\ Len(query.rules) >= 1

\* no custom run, rules selected, the target list absent: the engine does not run
C16_Witness ==
    /\ query.fn = "shouldEngineRun"
    /\ ~CustomRun(query.engineOptions)
    /\ Len(query.rules) >= 1
    /\ ~query.target.present
    /\ query.result # "true"

\* the kinds of the filters of a list, in order
KindsOf(filters) == [i \in 1..Len(filters) |-> filters[i].kind]

\* C17 (filter composition): the filter list built from the command flags holds
\* at most one filter per kind, each with the values of its flag, and its
\* rule-name filter has exactly one value; a rule passes the list exactly when
\* each filter shares a value with the rule's attribute set of its kind, so
\* every rule passes the empty list, and a rule with categories {A} and rulesets
\* {X} passes [category {A,B}] and fails [category {A,B}, ruleset {Y}].
C17_FilterComposition ==
    query.fn = "buildRuleFilters" =>
        LET fs == query.filters
            r == query.rule
        IN  /\ \A i, j \in 1..Len(fs) : fs[i].kind = fs[j].kind => i = j
            /\ \A i \in 1..Len(fs) :
                /\ fs[i].kind = "rulename" => fs[i].values = <<query.flags.rulename>>
                /\ fs[i].kind = "category" => fs[i].values = query.flags.category.values
                /\ fs[i].kind = "ruleset" => fs[i].values = query.flags.ruleset.values
                /\ Len(fs[i].values) >= 1
            /\ fs = <<>> => query.result
            /\ query.result <=>
                \A i \in 1..Len(fs) :
                    \E v \in Range(fs[i].values) : v \in AttributeSet(r, fs[i].kind)
            /\ ( /\ r.categories = {"A"}
                 /\ r.rulesets = {"X"}
                 /\ query.flags.category = Flag(<<"A", "B">>)
                 /\ query.flags.language = NoFlag
                 /\ query.flags.rulename = ""
                 /\ query.flags.engine = NoFlag )
               => /\ query.flags.ruleset = NoFlag
                        => (fs = <<Filter("category", <<"A", "B">>)>> /\ query.result)
                  /\ query.flags.ruleset = Flag(<<"Y">>)
                        => /\ KindsOf(fs) = <<"category", "ruleset">>
                           /\ ~query.result

\* the rule with categories {A} and rulesets {X} against the filters built from
\* the flags category A,B and ruleset Y: it does not pass
C17_Witness ==
    /\ query.fn = "buildRuleFilters"
    /\ query.rule = RuleR
    /\ query.filters = <<Filter("category", <<"A", "B">>), Filter("ruleset", <<"Y">>)>>
    /\ ~query.result

-----------------------------------------------------------------------------
(* C18: the memoized catalog                                               *)

\* C18 (catalog write-once): over any sequence of getCatalog calls, registry adds
\* and removes, and changes of the native rules, the catalog is built at most
\* once; once built, this.catalog stays the catalog of that first build and every
\* getCatalog returns it without fetching the native rules; a getCatalog that
\* throws leaves no catalog behind.
C18_CatalogWriteOnce ==
    /\ eslint.builds <= 1
    /\ eslint.catalog.built <=> eslint.builds >= 1
    /\ eslint.catalog.built => eslint.catalog = eslint.first
    /\ eslint.call = "returned" =>
        /\ eslint.catalog.built
        /\ eslint.returned = eslint.first
        /\ eslint.fetched => eslint.first = BuildCatalog(eslint.name,
                                                NativeRuleSets[eslint.nativeAtCall]).catalog
    /\ eslint.call = "threw" => ~eslint.catalog.built

\* after registry entries were added, a getCatalog is answered from this.catalog
\* although the native rules had changed since the build: a rebuild would have
\* given another catalog
C18_Witness ==
    /\ eslint.call = "returned"
    /\ ~eslint.fetched
    /\ ~BuildCatalog(eslint.name, NativeRuleSets[eslint.nativeAtCall]).threw
    /\ BuildCatalog(eslint.name, NativeRuleSets[eslint.nativeAtCall]).catalog # eslint.returned
    /\ eslint.returned = eslint.first
    /\ PathsOf(pathsByLanguageByEngine) # {}

-----------------------------------------------------------------------------
(* C21 - C22: the content of the built catalog                             *)

\* the names of the groups of a sequence of RuleGroups, with repetition
GroupsNamed(groups, name) == {i \in 1..Len(groups) : groups[i].name = name}

\* C21 (group references resolve): in the catalog built by getCatalog, every
\* name in a rule's categories names exactly one entry of catalog.categories and
\* every name in a rule's rulesets names an entry of catalog.rulesets. The code
\* violates this: processRule puts the rule's category into rule.rulesets while
\* getCatalog always sets catalog.rulesets to the empty list.
C21_GroupsResolve ==
    eslint.catalog.built =>
        \A i \in 1..Len(eslint.catalog.rules) :
            LET rule == eslint.catalog.rules[i]
            IN  /\ \A c \in Range(rule.categories) :
                    Cardinality(GroupsNamed(eslint.catalog.categories, c)) = 1
                /\ \A rs \in Range(rule.rulesets) :
                    GroupsNamed(eslint.catalog.rulesets, rs) # {}

\* the sum of the lengths of the groups' paths
RECURSIVE TotalPaths(_)
TotalPaths(groups) ==
    IF groups = <<>> THEN 0 ELSE Len(Head(groups).paths) + TotalPaths(Tail(groups))

\* the documentation URLs of the rules of a category, in the order of the rules
UrlsOfCategory(rules, name) ==
    LET members == SelectSeq(rules, LAMBDA r : name \in Range(r.categories))
    IN  [i \in 1..Len(members) |-> members[i].url]

\* C22 (deprecated rules and category groups): the catalog a getCatalog call
\* builds has exactly the native rules not marked deprecated, in the native
\* order; in every built catalog each category group's paths are the URLs of the
\* rules of that category in rule order, and the lengths of all category groups
\* sum to the number of rules.
C22_CatalogGroups ==
    /\ ( /\ eslint.call = "returned"
         /\ eslint.fetched )
       => LET native == NativeRuleSets[eslint.nativeAtCall]
              kept == SelectSeq(native, LAMBDA r : r.deprecated = FALSE)
          IN  /\ Len(eslint.returned.rules) = Len(kept)
              /\ \A i \in 1..Len(kept) : eslint.returned.rules[i].name = kept[i].name
              /\ \A i \in 1..Len(native) :
                    native[i].deprecated =>
                        \A j \in 1..Len(eslint.returned.rules) :
                            eslint.returned.rules[j].name # native[i].name
    /\ eslint.catalog.built =>
        /\ \A g \in 1..Len(eslint.catalog.categories) :
                eslint.catalog.categories[g].paths =
                    UrlsOfCategory(eslint.catalog.rules, eslint.catalog.categories[g].name)
        /\ TotalPaths(eslint.catalog.categories) = Len(eslint.catalog.rules)

\* a catalog just built from native rules of which one is deprecated and the
\* others fall into two categories, the rules of one category not adjacent
C22_Witness ==
    /\ eslint.call = "returned"
    /\ eslint.fetched
    /\ \E i \in 1..Len(NativeRuleSets[eslint.nativeAtCall]) :
            NativeRuleSets[eslint.nativeAtCall][i].deprecated
    /\ Len(eslint.returned.categories) = 2
    /\ eslint.returned.categories[1].paths =
            <<"https://eslint.org/no-eval", "https://eslint.org/eqeqeq">>
    /\ Len(eslint.returned.rules) = 3

-----------------------------------------------------------------------------
(* C23: default status and default configuration                           *)

\* the severity of an entry: the string itself, or the array's first element
SeverityOf(config) == IF config.form = "string" THEN config.text ELSE config.items[1]

\* C23 (three-valued default status): for every recommended configuration and
\* rule name, getDefaultStatus is null exactly when the configuration has no
\* entry for the rule, disabled exactly when the entry's severity is "off", and
\* enabled otherwise; getDefaultConfig returns the entry exactly when the status
\* is enabled and null in the other two cases.
C23_DefaultStatus ==
    query.fn = "getDefaults" =>
        LET has == query.ruleName \in DOMAIN query.rules
            off == has /\ SeverityOf(query.rules[query.ruleName]) = "off"
        IN  /\ query.status = "null" <=> ~has
            /\ query.status = "disabled" <=> off
            /\ query.status = "enabled" <=> (has /\ ~off)
            /\ query.status = "enabled" => query.config = query.rules[query.ruleName]
            /\ query.status # "enabled" => query.config = NullConfig

\* a rule the configuration has no entry for, next to one it turns off: unknown
C23_Witness ==
    /\ query.fn = "getDefaults"
    /\ query.ruleName \notin DOMAIN query.rules
    /\ \E n \in DOMAIN query.rules : SeverityOf(query.rules[n]) = "off"
    /\ query.status = "null"
    /\ query.config = NullConfig

-----------------------------------------------------------------------------
(* C24..C28: the run of an ESLint engine                                   *)

\* a run has been called
RunCalled == run.pc \in {"looping", "returned", "threw"}

\* the paths of target i that the engine of the run supports, from what the
\* target held when the run was called
SupportedAtStart(i) ==
    SelectSeq(run.atStart[i].paths,
              LAMBDA f : EndsWith(f, SupportedExtension(run.engine)))

\* the targets the loop of the run has been through
Processed == 1..(run.next - 1)

\* the messages the linter reports for a file under the rules of the run
ReportedMessages(f) ==
    SelectSeq(MessagesOf(f),
              LAMBDA m : m.ruleId = "" \/ \E j \in 1..Len(run.rules) : run.rules[j].name = m.ruleId)

\* the files of the invocations in log with reported messages: invocation after
\* invocation, and within one in the order of the linter's report
RECURSIVE FilesWithMessages(_)
FilesWithMessages(log) ==
    IF log = <<>> THEN <<>>
    ELSE SelectSeq(ReportOrder(Head(log).paths), LAMBDA f : ReportedMessages(f) # <<>>)
            \o FilesWithMessages(Tail(log))

\* C24: a run takes the targets in the order given, one after the other: of
\* the targets its loop has been through, the linter was invoked once for each
\* that has paths the engine supports, with just those paths, and for no other;
\* the invocations were made in target order, the one for a target before the
\* loop came to the next; and the results returned are those of the
\* invocations in that order, each in the order of the linter's report.
C24_OneInvocationPerTarget ==
    RunCalled =>
        /\ \A k \in 1..Len(run.log) :
                /\ run.log[k].target \in Processed
                /\ run.log[k].paths = SupportedAtStart(run.log[k].target)
                /\ run.log[k].paths # <<>>
                /\ \A j \in 1..(k - 1) : run.log[j].target < run.log[k].target
        /\ \A i \in Processed :
                SupportedAtStart(i) # <<>> => \E k \in 1..Len(run.log) : run.log[k].target = i
        /\ run.pc = "returned" =>
                /\ Len(run.returned) = Len(FilesWithMessages(run.log))
                /\ \A k \in 1..Len(run.returned) :
                        run.returned[k].fileName = FilesWithMessages(run.log)[k]

\* a run over a target without supported paths and, after it, a target with
\* three, has returned two results in the order of the report, which is not
\* the order of the paths
C24_Witness ==
    /\ run.pc = "returned"
    /\ Len(run.atStart) = 2
    /\ SupportedAtStart(1) = <<>>
    /\ run.atStart[2].paths = <<"src/d.js", "src/a.js", "src/b.js">>
    /\ Len(run.log) = 1
    /\ run.log[1].target = 2
    /\ Len(run.returned) = 2
    /\ run.returned[1].fileName = "src/a.js"
    /\ run.returned[2].fileName = "src/d.js"

\* C25: when the linter fails on a target, the run throws an SfdxError and
\* returns nothing: the failed invocation is the last thing the run did, the
\* targets after it are as they were when the run was called, untouched by
\* this engine, and what earlier targets had produced is not handed to the
\* caller. A run throws only in that case.
C25_FailureAbortsRun ==
    RunCalled =>
        /\ \A k \in 1..Len(run.log) :
                run.log[k].threw =>
                    /\ k = Len(run.log)
                    /\ run.pc = "threw"
                    /\ run.log[k].target = run.next - 1
        /\ run.pc = "threw" =>
                /\ run.error = "SfdxError"
                /\ run.returned = <<>>
                /\ run.log # <<>> /\ run.log[Len(run.log)].threw
                /\ \A i \in run.next..Len(run.targets) :
                        /\ run.targets[i] = run.atStart[i]
                        /\ \A j \in 1..Len(run.seenBy[i]) : run.seenBy[i][j] # run.engine
        /\ run.pc # "threw" => run.error = ""

\* the linter gave results for the first target and failed on the second; the
\* third target, which has paths the engine supports, was not processed
C25_Witness ==
    /\ run.pc = "threw"
    /\ Len(run.targets) = 3
    /\ Len(run.log) = 2
    /\ FilesWithMessages(<<run.log[1]>>) # <<>>
    /\ run.log[2].threw
    /\ run.next = 3
    /\ SupportedAtStart(3) # <<>>
    /\ run.returned = <<>>

\* the environment keys looked at: those of the built-in defaults, those the
\* run configs and the options set, and one that nothing sets
EnvKeys == DOMAIN DEFAULT_ENV_VARS \cup {"amd", "worker", "mongo"}

\* C26: in the configuration of every linter invocation of a run, an
\* environment key has the value of the user's env option if the option sets
\* it, otherwise the value of the env of the run config's baseConfig if that
\* sets it, otherwise its built-in default; a key that none of the three sets
\* is not in the configuration.
C26_EnvPrecedence ==
    RunCalled =>
        \A n \in 1..Len(run.log), k \in EnvKeys :
            LET env == run.log[n].env
                override == run.engineOptions
                config == run.runConfig
            IN  IF override.hasEnv /\ k \in DOMAIN override.env
                THEN k \in DOMAIN env /\ env[k] = override.env[k]
                ELSE IF config.hasBaseConfig /\ config.hasEnv /\ k \in DOMAIN config.env
                THEN k \in DOMAIN env /\ env[k] = config.env[k]
                ELSE IF k \in DOMAIN DEFAULT_ENV_VARS
                THEN k \in DOMAIN env /\ env[k] = DEFAULT_ENV_VARS[k]
                ELSE k \notin DOMAIN env

\* an invocation under an env option {browser: true, jest: false} and a
\* baseConfig env {browser: false, amd: true}: browser from the option over the
\* baseConfig, jest from the option over the default, amd from the baseConfig,
\* node from the defaults, mongo absent
C26_Witness ==
    /\ run.pc = "returned"
    /\ run.engineOptions = EnvOption([k \in {"browser", "jest"} |-> k = "browser"])
    /\ run.runConfig = BaseConfigWithEnv([k \in {"browser", "amd"} |-> k = "amd"])
    /\ run.log # <<>>
    /\ run.log[1].env["browser"] = TRUE
    /\ run.log[1].env["jest"] = FALSE
    /\ run.log[1].env["amd"] = TRUE
    /\ run.log[1].env["node"] = TRUE
    /\ "mongo" \notin DOMAIN run.log[1].env

\* what is left of paths after the unsupported-path filters of the first n of
\* the engines es, one after the other
RECURSIVE Survivors(_, _, _)
Survivors(paths, es, n) ==
    IF n = 0 THEN paths
    ELSE filterUnsupportedPaths(es[n], Survivors(paths, es, n - 1))

\* C27: a run writes the filtered list into the target object it was given.
\* Hence a target of a command holds, of the paths the command gave it, those
\* that passed the filter of every engine whose run has come to it so far; the
\* linter of a run is invoked with exactly these, so a later engine is given
\* no path an earlier engine's filter dropped; and no engine's linter is
\* invoked for a target that the filter of an engine before it left empty.
C27_RewritesInPlace ==
    run.pc # "none" =>
        /\ \A i \in 1..Len(run.targets) :
                run.targets[i].paths =
                    Survivors(run.orig[i].paths, run.seenBy[i], Len(run.seenBy[i]))
        /\ \A k \in 1..Len(run.log) :
                LET i == run.log[k].target
                    seen == run.seenBy[i]
                IN  /\ seen # <<>> /\ seen[Len(seen)] = run.engine
                    /\ run.log[k].paths = Survivors(run.orig[i].paths, seen, Len(seen))
                    /\ \A n \in 1..(Len(seen) - 1) :
                            Survivors(run.orig[i].paths, seen, n) # <<>>

\* after the run of eslint, the run of eslint-typescript over the same
\* targets has returned: it was not invoked for the first target, given as
\* a.js and c.ts, of which eslint had left a.js, nor for the second, given as
\* c.ts, which eslint had emptied
C27_Witness ==
    /\ run.pc = "returned"
    /\ run.engine = "eslint-typescript"
    /\ run.rules # <<>>
    /\ Len(run.targets) = 2
    /\ run.orig[1].paths = <<"src/a.js", "src/c.ts">>
    /\ run.orig[2].paths = <<"src/c.ts">>
    /\ run.seenBy[1] = <<"eslint", "eslint-typescript">>
    /\ run.seenBy[2] = <<"eslint", "eslint-typescript">>
    /\ run.atStart[1].paths = <<"src/a.js">>
    /\ run.atStart[2].paths = <<>>
    /\ run.targets[1].paths = <<>>
    /\ run.log = <<>>

\* C28: every RuleResult a run returns has at least one violation: the run
\* returns one result for each file of a report that has messages and none
\* for a file without, a result has one violation for each message of its
\* file, in the order of the messages, and a run called without rules returns
\* no results, invokes the linter for no target and rewrites no target.
C28_ResultsHaveViolations ==
    /\ run.pc = "returned" =>
            /\ \A k \in 1..Len(run.returned) :
                    LET res == run.returned[k]
                        messages == ReportedMessages(res.fileName)
                    IN  /\ Len(res.violations) >= 1
                        /\ Len(res.violations) = Len(messages)
                        /\ \A n \in 1..Len(messages) :
                                /\ res.violations[n].ruleName = messages[n].ruleId
                                /\ res.violations[n].line = messages[n].line
                                /\ res.violations[n].message = messages[n].message
            /\ \A n \in 1..Len(run.log) : \A j \in 1..Len(run.log[n].paths) :
                    LET f == run.log[n].paths[j]
                    IN  ReportedMessages(f) # <<>>
                            <=> \E k \in 1..Len(run.returned) : run.returned[k].fileName = f
    /\ (RunCalled /\ run.rules = <<>>) =>
            /\ run.pc = "returned"
            /\ run.returned = <<>>
            /\ run.log = <<>>
            /\ run.targets = run.atStart

\* a run over a.js, b.js and d.js under both rules has returned two results:
\* for a.js two violations in the order of its messages, for d.js one, for
\* b.js, which has no messages, none
C28_Witness ==
    /\ run.pc = "returned"
    /\ Len(run.rules) = 2
    /\ Len(run.log) = 1
    /\ run.log[1].paths = <<"src/d.js", "src/a.js", "src/b.js">>
    /\ Len(run.returned) = 2
    /\ run.returned[1].fileName = "src/a.js"
    /\ Len(run.returned[1].violations) = 2
    /\ run.returned[1].violations[1].ruleName = "no-eval"
    /\ run.returned[1].violations[2].ruleName = "no-var"
    /\ run.returned[2].fileName = "src/d.js"
    /\ Len(run.returned[2].violations) = 1

====
